---- MODULE Spec2Model ----
(***************************************************************************)
(* Financial projection and scoring engine of the Valunetics dashboard.    *)
(*                                                                         *)
(*   - calculateFinancialScore and the financial-assessment HTTP handler   *)
(*     (project/supabase/functions/financial-advisor/index.ts)             *)
(*   - generateMockFinancialPlan (src/services/aiService.ts)               *)
(*   - calculateProjection, calculateScenarioResults and the results       *)
(*     useMemo (src/components/InvestmentScenarioSimulator.tsx)            *)
(*   - handleInputChange and calculateRetirementProjection                 *)
(*     (src/components/WealthManagementTools.tsx)                          *)
(*                                                                         *)
(* Numbers.  Assessment amounts are whole currency units; the compounding  *)
(* calculators use the fixed-point grids described with them.  A JavaScript*)
(* quotient a/b is kept as the pair [n |-> a, d |-> b] and compared with   *)
(* a literal p/q by cross-multiplication; a zero divisor follows IEEE-754  *)
(* (+Infinity, -Infinity, NaN).  emergencyFundMonths is counted in         *)
(* 1/MonthsScale months (the form's input step).  Plan amounts are kept as *)
(* numerators over PlanDen(request).  Message texts are represented by a   *)
(* tag naming the template that produced them.                             *)
(***************************************************************************)
EXTENDS Integers, Sequences, FiniteSets, TLC

VARIABLES
  pc,           \* "init", or the call made: "scored", "served", "planned",
                \* "simulated", "sim_threw", or the position in the wealth
                \* tool: "wealth_form", "wealth_loading", "wealth_done"
  body,         \* the request body handed to the calculator or the handler
  localScores,  \* the local `scores` object of calculateFinancialScore
  result,       \* the AssessmentResult returned by calculateFinancialScore
  response,     \* the Response of the financial-assessment handler
  planRequest,  \* the FinancialPlanRequest
  plan,         \* the FinancialPlan returned by generateMockFinancialPlan
  simInputs,    \* SimulationInputs of the simulator form
  simSeed,      \* the stream of Math.random() values, repeated cyclically
  simRuns,      \* the four calculateProjection results local to useMemo
  simResults,   \* the SimulationResults returned by useMemo
  wealthData,   \* WealthData of the wealth form
  loading,      \* the loading flag of the wealth tool
  pendingData,  \* the wealthData the pending timer callback closes over
  wealthProjections, \* the projections state of the wealth tool
  assetAllocation,   \* the assetAllocation state of the wealth tool
  wealthSteps,  \* passes of the month loop made by the last projection
  timers,       \* pending setTimeout callbacks of the wealth tool
  step,         \* the step of the goal-planning wizard
  planLoading,  \* the loading flag of the wizard
  formData,     \* FormData of the wizard
  wizardPlan,   \* the plan state of the wizard (null until generated)
  aiCall,       \* the last generateFinancialPlan call and how it was made
  inFlight,     \* generateFinancialPlan calls not yet settled
  assessStep,   \* the step of the assessment form
  assessForm,   \* formData of the assessment form
  assessLoading, \* the loading flag of FinancialAssessment
  submission    \* the last snapshot handed to onSubmit and posted

scoreVars == <<body, localScores, result, response>>
planVars == <<planRequest, plan>>
simVars == <<simInputs, simSeed, simRuns, simResults>>

wealthVars == <<wealthData, loading, pendingData, wealthProjections,
                assetAllocation, wealthSteps, timers>>

wizardVars == <<step, planLoading, formData, wizardPlan, aiCall, inFlight>>
assessVars == <<assessStep, assessForm, assessLoading, submission>>

vars == <<pc, body, localScores, result, response, planRequest, plan,
          simInputs, simSeed, simRuns, simResults, wealthData, loading,
          pendingData, wealthProjections, assetAllocation, wealthSteps,
          timers, step, planLoading, formData, wizardPlan, aiCall, inFlight,
          assessStep, assessForm, assessLoading, submission>>

(***************************************************************************)
(* Bounds of the explored input space.                                     *)
(***************************************************************************)
MaxIncomeSteps == 1
MaxExpenses == 21
MaxDebtSteps == 11
MaxSavingsAmount == 1
MaxMonthsHalves == 13
MaxTargetSteps == 5
MaxCurrentSteps == 4
MaxHorizon == 3
MaxInitialSteps == 1
MaxDuration == 2
MaxContributionSteps == 1
SeedLen == 3
MaxRetirementSpan == 3
MaxInFlight == 2
MaxTimers == 2

\* emergencyFundMonths is entered in steps of 0.5: one unit is 1/2 month.
MonthsScale == 2

Incomes == {20 * k : k \in (-1)..MaxIncomeSteps}
Expenses == 0..MaxExpenses
Debts == {24 * k : k \in 0..MaxDebtSteps}
SavingsAmounts == 0..MaxSavingsAmount
MonthsValues == 0..MaxMonthsHalves
GoalTexts == {"", "x"}

\* The worked example of the specification (months 4 = 8 half-months).
ExampleSnapshot ==
  [monthlyIncome |-> 5000, monthlyExpenses |-> 3000, totalDebt |-> 10000,
   savingsAmount |-> 5000, emergencyFundMonths |-> 4 * MonthsScale,
   shortTermGoals |-> "x", longTermGoals |-> "y", riskTolerance |-> "medium"]

AssessmentRequest ==
  [monthlyIncome : Incomes, monthlyExpenses : Expenses, totalDebt : Debts,
   savingsAmount : SavingsAmounts, emergencyFundMonths : MonthsValues,
   shortTermGoals : GoalTexts, longTermGoals : GoalTexts,
   riskTolerance : {"medium"}]
  \cup {ExampleSnapshot}

(***************************************************************************)
(* JavaScript number semantics used by the calculators.                    *)
(***************************************************************************)
\* a / b
Quot(a, b) == [n |-> a, d |-> b]

\* r >= p/q   (q > 0); Infinity >= x, and every comparison with NaN is false
GE(r, p, q) ==
  IF r.d > 0 THEN r.n * q >= p * r.d
  ELSE IF r.d < 0 THEN r.n * q <= p * r.d
  ELSE r.n > 0

\* r > p/q
GT(r, p, q) ==
  IF r.d > 0 THEN r.n * q > p * r.d
  ELSE IF r.d < 0 THEN r.n * q < p * r.d
  ELSE r.n > 0

\* r <= p/q
LE(r, p, q) ==
  IF r.d > 0 THEN r.n * q <= p * r.d
  ELSE IF r.d < 0 THEN r.n * q >= p * r.d
  ELSE r.n < 0

\* r < p/q
LT(r, p, q) ==
  IF r.d > 0 THEN r.n * q < p * r.d
  ELSE IF r.d < 0 THEN r.n * q > p * r.d
  ELSE r.n < 0

\* Math.round(n/d) for d > 0: the nearest integer, halves rounded up
MathRound(n, d) == (2 * n + d) \div (2 * d)

(***************************************************************************)
(* IEEE 754 double arithmetic of a JavaScript number (round to nearest,    *)
(* ties to even), for the places where the rounding of a result is what a  *)
(* statement is about.  A magnitude is a sequence of limbs, least          *)
(* significant first, without a leading zero limb; a double is             *)
(* sign * m * 2^e with m odd, or zero.  Exponents stay far inside the      *)
(* normal range for the amounts of the calculators, so overflow and        *)
(* subnormals do not arise.                                                *)
(***************************************************************************)
LimbBits == 15
Limb == 2^LimbBits
MantissaBits == 53

RECURSIVE BigTrim(_)
BigTrim(a) ==
  IF a = <<>> THEN <<>>
  ELSE IF a[Len(a)] = 0 THEN BigTrim(SubSeq(a, 1, Len(a) - 1))
  ELSE a

RECURSIVE BigOfNat(_)
BigOfNat(n) == IF n = 0 THEN <<>> ELSE <<n % Limb>> \o BigOfNat(n \div Limb)

\* a + b + carry
RECURSIVE BigAddCarry(_, _, _)
BigAddCarry(a, b, carry) ==
  IF a = <<>> /\ b = <<>> THEN (IF carry = 0 THEN <<>> ELSE <<carry>>)
  ELSE LET x == IF a = <<>> THEN 0 ELSE Head(a)
           y == IF b = <<>> THEN 0 ELSE Head(b)
       IN <<(x + y + carry) % Limb>>
          \o BigAddCarry(IF a = <<>> THEN <<>> ELSE Tail(a),
                         IF b = <<>> THEN <<>> ELSE Tail(b),
                         (x + y + carry) \div Limb)

\* the limbs of a - b - borrow for a >= b + borrow, leading zeros included
RECURSIVE BigSubBorrow(_, _, _)
BigSubBorrow(a, b, borrow) ==
  IF a = <<>> THEN <<>>
  ELSE LET y == IF b = <<>> THEN 0 ELSE Head(b)
           x == Head(a) - y - borrow
       IN <<IF x < 0 THEN x + Limb ELSE x>>
          \o BigSubBorrow(Tail(a), IF b = <<>> THEN <<>> ELSE Tail(b),
                          IF x < 0 THEN 1 ELSE 0)

RECURSIVE BigCmpFrom(_, _, _)
BigCmpFrom(a, b, i) ==
  IF i = 0 THEN 0
  ELSE IF a[i] < b[i] THEN -1
  ELSE IF a[i] > b[i] THEN 1
  ELSE BigCmpFrom(a, b, i - 1)

\* -1, 0 or 1 as a < b, a = b or a > b
BigCmp(a, b) ==
  IF Len(a) < Len(b) THEN -1
  ELSE IF Len(a) > Len(b) THEN 1
  ELSE BigCmpFrom(a, b, Len(a))

\* a * k + carry for 0 < k < Limb
RECURSIVE BigMulSmallCarry(_, _, _)
BigMulSmallCarry(a, k, carry) ==
  IF a = <<>> THEN (IF carry = 0 THEN <<>> ELSE <<carry>>)
  ELSE <<(Head(a) * k + carry) % Limb>>
       \o BigMulSmallCarry(Tail(a), k, (Head(a) * k + carry) \div Limb)

\* a * b for a, b > 0
RECURSIVE BigMul(_, _)
BigMul(a, b) ==
  IF b = <<>> THEN <<>>
  ELSE BigAddCarry(BigMulSmallCarry(a, Head(b), 0),
                   IF Tail(b) = <<>> THEN <<>>
                   ELSE <<0>> \o BigMul(a, Tail(b)), 0)

\* the remainder of the limbs i.. of a on division by d, 0 < d <= Limb
RECURSIVE BigRemFrom(_, _, _)
BigRemFrom(a, d, i) ==
  IF i > Len(a) THEN 0 ELSE (BigRemFrom(a, d, i + 1) * Limb + a[i]) % d

\* floor(a / d), 0 < d <= Limb
BigDivSmall(a, d) ==
  BigTrim([i \in 1..Len(a) |-> (BigRemFrom(a, d, i + 1) * Limb + a[i]) \div d])

RECURSIVE BitsOf(_)
BitsOf(n) == IF n = 0 THEN 0 ELSE 1 + BitsOf(n \div 2)

BigBitLen(a) ==
  IF a = <<>> THEN 0 ELSE LimbBits * (Len(a) - 1) + BitsOf(a[Len(a)])

\* a * 2^n for a > 0
BigShiftLeft(a, n) ==
  [i \in 1..(n \div LimbBits) |-> 0]
  \o BigMulSmallCarry(a, 2^(n % LimbBits), 0)

\* floor(a / 2^n)
BigShiftRight(a, n) ==
  BigDivSmall(SubSeq(a, (n \div LimbBits) + 1, Len(a)), 2^(n % LimbBits))

DoubleZero == [sign |-> 1, m |-> <<>>, e |-> 0]

\* sign * m * 2^e with the trailing zero bits of m moved into e
RECURSIVE Canon(_, _, _)
Canon(sign, m, e) ==
  IF m = <<>> THEN DoubleZero
  ELSE IF m[1] % 2 = 0 THEN Canon(sign, BigDivSmall(m, 2), e + 1)
  ELSE [sign |-> sign, m |-> m, e |-> e]

\* the double nearest to sign * (n + f) * 2^e, where 0 <= f < 1 and
\* sticky says f > 0 (then n has more than MantissaBits + 1 bits)
RoundToDouble(sign, n, e, sticky) ==
  LET k == BigBitLen(n) - MantissaBits IN
  IF k <= 0 THEN Canon(sign, n, e)
  ELSE LET q == BigShiftRight(n, k - 1)
           m == BigShiftRight(q, 1)
           rest == sticky \/ BigShiftLeft(q, k - 1) # n
           up == q[1] % 2 = 1 /\ (rest \/ m[1] % 2 = 1)
       IN Canon(sign, IF up THEN BigAddCarry(m, <<>>, 1) ELSE m, e + k)

\* the double of an integer below 2^31
DoubleOfInt(n) ==
  IF n < 0 THEN Canon(-1, BigOfNat(-n), 0) ELSE Canon(1, BigOfNat(n), 0)

\* n / d for integers, 0 < d < Limb
DoubleDivInt(n, d) ==
  IF n = 0 THEN DoubleZero
  ELSE LET shifted == BigShiftLeft(BigOfNat(IF n < 0 THEN -n ELSE n),
                                   5 * LimbBits)
       IN RoundToDouble(IF n < 0 THEN -1 ELSE 1, BigDivSmall(shifted, d),
                        -(5 * LimbBits), BigRemFrom(shifted, d, 1) # 0)

\* x * y
DoubleMul(x, y) ==
  IF x.m = <<>> \/ y.m = <<>> THEN DoubleZero
  ELSE RoundToDouble(x.sign * y.sign, BigMul(x.m, y.m), x.e + y.e, FALSE)

\* x + y
DoubleAdd(x, y) ==
  IF x.m = <<>> THEN y
  ELSE IF y.m = <<>> THEN x
  ELSE LET e == IF x.e < y.e THEN x.e ELSE y.e
           a == BigShiftLeft(x.m, x.e - e)
           b == BigShiftLeft(y.m, y.e - e)
       IN IF x.sign = y.sign
            THEN RoundToDouble(x.sign, BigAddCarry(a, b, 0), e, FALSE)
          ELSE IF BigCmp(a, b) = 0 THEN DoubleZero
          ELSE IF BigCmp(a, b) > 0
            THEN RoundToDouble(x.sign, BigTrim(BigSubBorrow(a, b, 0)), e,
                               FALSE)
          ELSE RoundToDouble(y.sign, BigTrim(BigSubBorrow(b, a, 0)), e,
                             FALSE)

\* the literals 0.6 and 0.4
Double06 == [sign |-> 1, m |-> <<13107, 26214, 19660, 153>>, e |-> -53]
Double04 == [sign |-> 1, m |-> <<19661, 6553, 13107, 102>>, e |-> -53]

\* truthiness of a string / of a number
Truthy(s) == s # ""
TruthyNum(x) == x # 0

(***************************************************************************)
(* calculateFinancialScore                                                 *)
(***************************************************************************)
savingsRateOfExpenses(d) == Quot(d.monthlyExpenses, d.monthlyIncome)

savingsRate(d) == Quot(d.monthlyIncome - d.monthlyExpenses, d.monthlyIncome)

annualIncome(d) == d.monthlyIncome * 12

debtToIncomeRatio(d) == Quot(d.totalDebt, annualIncome(d))

expenseRatio(d) == Quot(d.monthlyExpenses, d.monthlyIncome)

savingsRateScoreStrict(d) ==
  LET r == savingsRate(d) IN
  IF GT(r, 25, 100) THEN 25
  ELSE IF GT(r, 20, 100) THEN 22
  ELSE IF GT(r, 15, 100) THEN 20
  ELSE IF GT(r, 10, 100) THEN 15
  ELSE IF GT(r, 5, 100) THEN 10
  ELSE IF GT(r, 0, 1) THEN 5
  ELSE 0

savingsRateScore(d) ==
  LET r == savingsRate(d) IN
  IF GE(r, 25, 100) THEN 25
  ELSE IF GE(r, 20, 100) THEN 22
  ELSE IF GE(r, 15, 100) THEN 20
  ELSE IF GE(r, 10, 100) THEN 15
  ELSE IF GE(r, 5, 100) THEN 10
  ELSE IF GT(r, 0, 1) THEN 5
  ELSE 0

debtManagementScoreZero(d) ==
  LET r == debtToIncomeRatio(d) IN
  IF LE(r, 3, 10) THEN 25
  ELSE IF LE(r, 5, 10) THEN 20
  ELSE IF LE(r, 7, 10) THEN 15
  ELSE IF LE(r, 1, 1) THEN 10
  ELSE 0

debtManagementScore(d) ==
  LET r == debtToIncomeRatio(d) IN
  IF LE(r, 3, 10) THEN 25
  ELSE IF LE(r, 5, 10) THEN 20
  ELSE IF LE(r, 7, 10) THEN 15
  ELSE IF LE(r, 1, 1) THEN 10
  ELSE 5

emergencyFundScoreNoPartial(d) ==
  LET m == d.emergencyFundMonths IN
  IF m >= 6 * MonthsScale THEN 20
  ELSE IF m >= 4 * MonthsScale THEN 16
  ELSE IF m >= 3 * MonthsScale THEN 12
  ELSE IF m >= 1 * MonthsScale THEN 8
  ELSE 0

emergencyFundScore(d) ==
  LET m == d.emergencyFundMonths IN
  IF m >= 6 * MonthsScale THEN 20
  ELSE IF m >= 4 * MonthsScale THEN 16
  ELSE IF m >= 3 * MonthsScale THEN 12
  ELSE IF m >= 1 * MonthsScale THEN 8
  ELSE IF m > 0 THEN 4
  ELSE 0

expenseManagementScoreShifted(d) ==
  LET r == expenseRatio(d) IN
  IF LE(r, 50, 100) THEN 15
  ELSE IF LT(r, 60, 100) THEN 12
  ELSE IF LE(r, 75, 100) THEN 10
  ELSE IF LE(r, 85, 100) THEN 7
  ELSE 3

expenseManagementScore(d) ==
  LET r == expenseRatio(d) IN
  IF LE(r, 50, 100) THEN 15
  ELSE IF LE(r, 65, 100) THEN 12
  ELSE IF LE(r, 75, 100) THEN 10
  ELSE IF LE(r, 85, 100) THEN 7
  ELSE 3

goalPlanningScoreEither(d) ==
  IF Truthy(d.shortTermGoals) \/ Truthy(d.longTermGoals) THEN 15
  ELSE 0

goalPlanningScore(d) ==
  IF Truthy(d.shortTermGoals) /\ Truthy(d.longTermGoals) THEN 15
  ELSE IF Truthy(d.shortTermGoals) \/ Truthy(d.longTermGoals) THEN 8
  ELSE 0

scores(d) ==
  [savingsRate |-> savingsRateScore(d),
   debtManagement |-> debtManagementScore(d),
   emergencyFund |-> emergencyFundScore(d),
   expenseManagement |-> expenseManagementScore(d),
   goalPlanning |-> goalPlanningScore(d)]

totalScore(d) ==
  MathRound(scores(d).savingsRate + scores(d).debtManagement
            + scores(d).emergencyFund + scores(d).expenseManagement
            + scores(d).goalPlanning, 1)

categoryOfStrict(s) ==
  IF s > 80 THEN "excellent"
  ELSE IF s > 60 THEN "good"
  ELSE IF s > 40 THEN "fair"
  ELSE "poor"

categoryOf(s) ==
  IF s >= 80 THEN "excellent"
  ELSE IF s >= 60 THEN "good"
  ELSE IF s >= 40 THEN "fair"
  ELSE "poor"

\* riskAreas, in push order
riskAreasUnchained(d) ==
  (IF LT(savingsRate(d), 5, 100) THEN <<"risk_savings_very_low">>
   ELSE IF LT(savingsRate(d), 10, 100) THEN <<"risk_savings_low">>
   ELSE <<>>)
  \o (IF GT(debtToIncomeRatio(d), 1, 1) THEN <<"risk_debt_high">>
      ELSE IF GT(debtToIncomeRatio(d), 7, 10) THEN <<"risk_debt_elevated">>
      ELSE <<>>)
  \o (IF d.emergencyFundMonths < 3 * MonthsScale
        THEN <<"risk_emergency_insufficient">> ELSE <<>>)
  \o (IF d.monthlyExpenses > d.monthlyIncome
        THEN <<"risk_expenses_deficit">> ELSE <<>>)
  \o (IF GT(expenseRatio(d), 85, 100)
        THEN <<"risk_expenses_over85">> ELSE <<>>)

riskAreasOf(d) ==
  (IF LT(savingsRate(d), 5, 100) THEN <<"risk_savings_very_low">>
   ELSE IF LT(savingsRate(d), 10, 100) THEN <<"risk_savings_low">>
   ELSE <<>>)
  \o (IF GT(debtToIncomeRatio(d), 1, 1) THEN <<"risk_debt_high">>
      ELSE IF GT(debtToIncomeRatio(d), 7, 10) THEN <<"risk_debt_elevated">>
      ELSE <<>>)
  \o (IF d.emergencyFundMonths < 3 * MonthsScale
        THEN <<"risk_emergency_insufficient">> ELSE <<>>)
  \o (IF d.monthlyExpenses > d.monthlyIncome
        THEN <<"risk_expenses_deficit">>
      ELSE IF GT(expenseRatio(d), 85, 100)
        THEN <<"risk_expenses_over85">>
      ELSE <<>>)

\* strengths, in push order
strengthsOf(d) ==
  (IF LT(savingsRate(d), 5, 100) THEN <<>>
   ELSE IF LT(savingsRate(d), 10, 100) THEN <<>>
   ELSE <<"strength_savings_healthy">>)
  \o (IF GT(debtToIncomeRatio(d), 1, 1) THEN <<>>
      ELSE IF GT(debtToIncomeRatio(d), 7, 10) THEN <<>>
      ELSE IF LE(debtToIncomeRatio(d), 3, 10)
        THEN <<"strength_debt_excellent">>
      ELSE <<>>)
  \o (IF d.emergencyFundMonths < 3 * MonthsScale THEN <<>>
      ELSE IF d.emergencyFundMonths >= 6 * MonthsScale
        THEN <<"strength_emergency_strong">>
      ELSE <<>>)

\* d.monthlyExpenses > d.monthlyIncome * 0.85
ExpensesOver85(d) == d.monthlyExpenses * 100 > d.monthlyIncome * 85

recommendationsDiversifyFirst(d) ==
  (IF d.savingsAmount > 0 THEN <<"rec_diversify">> ELSE <<>>)
  \o (IF LT(savingsRate(d), 10, 100) THEN <<"rec_savings">> ELSE <<>>)
  \o (IF GT(debtToIncomeRatio(d), 5, 10) THEN <<"rec_debt">> ELSE <<>>)
  \o (IF d.emergencyFundMonths < 3 * MonthsScale
        THEN <<"rec_emergency">> ELSE <<>>)
  \o (IF ExpensesOver85(d) THEN <<"rec_expenses">> ELSE <<>>)
  \o (IF Truthy(d.shortTermGoals) \/ Truthy(d.longTermGoals)
        THEN <<"rec_goals_timeline">> ELSE <<"rec_goals_define">>)

recommendationsOf(d) ==
  (IF LT(savingsRate(d), 10, 100) THEN <<"rec_savings">> ELSE <<>>)
  \o (IF GT(debtToIncomeRatio(d), 5, 10) THEN <<"rec_debt">> ELSE <<>>)
  \o (IF d.emergencyFundMonths < 3 * MonthsScale
        THEN <<"rec_emergency">> ELSE <<>>)
  \o (IF ExpensesOver85(d) THEN <<"rec_expenses">> ELSE <<>>)
  \o (IF Truthy(d.shortTermGoals) \/ Truthy(d.longTermGoals)
        THEN <<"rec_goals_timeline">> ELSE <<"rec_goals_define">>)
  \o (IF d.savingsAmount > 0 THEN <<"rec_diversify">> ELSE <<>>)

calculateFinancialScore(d) ==
  [score |-> totalScore(d),
   category |-> categoryOf(totalScore(d)),
   riskAreas |-> riskAreasOf(d),
   recommendations |-> recommendationsOf(d),
   strengths |-> strengthsOf(d)]

(***************************************************************************)
(* Deno.serve handler of the financial-assessment function                 *)
(***************************************************************************)
NoScores ==
  [savingsRate |-> 0, debtManagement |-> 0, emergencyFund |-> 0,
   expenseManagement |-> 0, goalPlanning |-> 0]

NoResult ==
  [score |-> -1, category |-> "", riskAreas |-> <<>>,
   recommendations |-> <<>>, strengths |-> <<>>]

NoResponse == [status |-> 0, error |-> "", result |-> NoResult]

\* a body req.json() cannot parse
Malformed ==
  [monthlyIncome |-> 0, monthlyExpenses |-> 0, totalDebt |-> 0,
   savingsAmount |-> 0, emergencyFundMonths |-> 0,
   shortTermGoals |-> "", longTermGoals |-> "", riskTolerance |-> "malformed"]

MissingRequiredFields(d) ==
  \/ ~TruthyNum(d.monthlyIncome)
  \/ ~Truthy(d.shortTermGoals)
  \/ ~Truthy(d.longTermGoals)

serveAssessment(d) ==
  IF d = Malformed
    THEN [status |-> 500, error |-> "Failed to process assessment",
          result |-> NoResult]
  ELSE IF MissingRequiredFields(d)
    THEN [status |-> 400, error |-> "Missing required fields",
          result |-> NoResult]
  ELSE [status |-> 200, error |-> "", result |-> calculateFinancialScore(d)]

(***************************************************************************)
(* generateMockFinancialPlan                                               *)
(***************************************************************************)
RiskTolerances == {"conservative", "moderate", "aggressive"}
Targets == {50 * k : k \in 0..MaxTargetSteps}
Currents == {50 * k : k \in 0..MaxCurrentSteps}
Horizons == (-1)..MaxHorizon

\* The worked example of the specification (120000 over 10 years, moderate),
\* with money counted in hundreds so that the numerators fit 32 bits; the
\* plan is linear in the money unit.
ExamplePlanRequest ==
  [age |-> 30, income |-> 750, currentSavings |-> 0,
   targetGoal |-> "retirement", targetAmount |-> 1200, timeHorizon |-> 10,
   riskTolerance |-> "moderate"]

FinancialPlanRequest ==
  [age : {30}, income : {750}, currentSavings : Currents,
   targetGoal : {"retirement"}, targetAmount : Targets,
   timeHorizon : Horizons, riskTolerance : RiskTolerances]
  \cup {ExamplePlanRequest}

\* (targetAmount - currentSavings) / (timeHorizon * 12)
monthlySavings(r) ==
  Quot(r.targetAmount - r.currentSavings, r.timeHorizon * 12)

\* common denominator of the amounts of one plan: every amount x of a
\* MonthlyPlan stands for x / PlanDen(r)
PlanDen(r) == r.timeHorizon * 12 * 500

\* 0.4 * (1 + (riskTolerance === 'aggressive' ? 0.01 : 0.005)), in 1/500
InvestmentFactor(r) == IF r.riskTolerance = "aggressive" THEN 202 ELSE 201

MonthlyPlanClamped(r, month) ==
  LET gap == IF r.targetAmount > r.currentSavings
               THEN r.targetAmount - r.currentSavings ELSE 0 IN
  [month |-> month,
   savings |-> gap * 300 * month,
   investments |-> gap * month * InvestmentFactor(r),
   total |-> r.currentSavings * PlanDen(r) + gap * 300 * month
             + gap * 200 * month,
   milestone |-> IF month % 12 = 0 THEN month \div 12 ELSE 0]

MonthlyPlan(r, month) ==
  LET gap == r.targetAmount - r.currentSavings IN
  [month |-> month,
   savings |-> gap * 300 * month,
   investments |-> gap * month * InvestmentFactor(r),
   total |-> r.currentSavings * PlanDen(r) + gap * 300 * month
             + gap * 200 * month,
   milestone |-> IF month % 12 = 0 THEN month \div 12 ELSE 0]

\* the number the code stores in total: request.currentSavings
\* + savings * month + investments * month, evaluated in doubles, with
\* savings = monthlySavings * 0.6 and investments = monthlySavings * 0.4
totalAsStored(r, month) ==
  LET ms == DoubleDivInt(r.targetAmount - r.currentSavings, r.timeHorizon * 12)
      savings == DoubleMul(ms, Double06)
      investments == DoubleMul(ms, Double04)
  IN DoubleAdd(DoubleAdd(DoubleOfInt(r.currentSavings),
                         DoubleMul(savings, DoubleOfInt(month))),
               DoubleMul(investments, DoubleOfInt(month)))

monthlyPlansFromZero(r) ==
  IF r.timeHorizon * 12 >= 1
    THEN [i \in 1..(r.timeHorizon * 12) |-> MonthlyPlan(r, i - 1)]
    ELSE <<>>

\* for (let month = 1; month <= request.timeHorizon * 12; month++)
monthlyPlansOf(r) ==
  IF r.timeHorizon * 12 >= 1
    THEN [month \in 1..(r.timeHorizon * 12) |-> MonthlyPlan(r, month)]
    ELSE <<>>

\* x.toFixed(0) of the quotient n/d: "NaN", "Infinity", "-Infinity" or the
\* nearest integer, halves rounded away from zero
ToFixed0(n, d) ==
  IF d = 0
    THEN [kind |-> IF n > 0 THEN "Infinity"
                   ELSE IF n < 0 THEN "-Infinity" ELSE "NaN", value |-> 0]
  ELSE LET sn == IF d > 0 THEN n ELSE -n
           sd == IF d > 0 THEN d ELSE -d
       IN [kind |-> "finite",
           value |-> IF sn >= 0 THEN (2 * sn + sd) \div (2 * sd)
                     ELSE -((2 * (-sn) + sd) \div (2 * sd))]

\* request.currentSavings + monthlySavings * k, as a quotient
ReachAmount(r, k) ==
  Quot(r.currentSavings * r.timeHorizon * 12
       + (r.targetAmount - r.currentSavings) * k, r.timeHorizon * 12)

milestonesOf(r) ==
  << [month |-> 12, label |-> "Reach",
      amount |-> ToFixed0(ReachAmount(r, 12).n, ReachAmount(r, 12).d)],
     [month |-> 24, label |-> "Reach",
      amount |-> ToFixed0(ReachAmount(r, 24).n, ReachAmount(r, 24).d)],
     [month |-> r.timeHorizon * 12, label |-> "Achieve target of",
      amount |-> [kind |-> "finite", value |-> r.targetAmount]] >>

generateMockFinancialPlan(r) ==
  [summary |-> [targetGoal |-> r.targetGoal, targetAmount |-> r.targetAmount,
                timeHorizon |-> r.timeHorizon,
                riskTolerance |-> r.riskTolerance,
                monthlySavings |-> monthlySavings(r)],
   monthlyPlans |-> monthlyPlansOf(r),
   recommendations |-> <<"automate", "diversify", "review", "tax">>,
   milestones |-> milestonesOf(r)]

NoPlanRequest ==
  [age |-> 0, income |-> 0, currentSavings |-> 0, targetGoal |-> "",
   targetAmount |-> 0, timeHorizon |-> 0, riskTolerance |-> ""]

NoPlan ==
  [summary |-> [targetGoal |-> "", targetAmount |-> 0, timeHorizon |-> 0,
                riskTolerance |-> "", monthlySavings |-> Quot(0, 1)],
   monthlyPlans |-> <<>>, recommendations |-> <<>>, milestones |-> <<>>]

(***************************************************************************)
(* InvestmentScenarioSimulator: calculateProjection,                       *)
(* calculateScenarioResults and the results useMemo.                       *)
(*                                                                         *)
(* Amounts are fixed-point numbers counted in 1/BalanceScale currency      *)
(* units and monthly rates in 1/RateDen; a product is truncated to the     *)
(* grid.  Math.random() is a stream: the seed is a finite sequence of      *)
(* values U = u/4 that is read cyclically, one element per call, in call   *)
(* order.  annualizedReturn is kept as the pair (ratio, root) standing     *)
(* for (Math.pow(ratio, 1/root) - 1) * 100.                                *)
(***************************************************************************)
BalanceScale == 10000
RateDen == 120000
\* Math.sqrt(12) * 1000
Sqrt12Milli == 3464

\* Math.random() values, in quarters: 0, 0.5, 0.75
DrawValues == {0, 2, 3}
Seeds == [1..SeedLen -> DrawValues]

Scenarios == {"conservative", "moderate", "aggressive"}

InitialAmounts ==
  {0, 1 * BalanceScale, 100 * BalanceScale}
  \cup {1000 * k * BalanceScale : k \in 1..MaxInitialSteps}
Durations == (-1)..MaxDuration
Contributions == {10 * k * BalanceScale : k \in 0..MaxContributionSteps}

SimulationInputs ==
  [initialAmount : InitialAmounts, duration : Durations,
   riskTolerance : Scenarios, monthlyContribution : Contributions]

\* annualReturn, volatility and maxDrawdown in percent
FINANCIAL_ASSUMPTIONS_Swapped ==
  [conservative |-> [annualReturn |-> 11, volatility |-> 18,
                     maxDrawdown |-> 40],
   moderate |-> [annualReturn |-> 8, volatility |-> 12, maxDrawdown |-> 25],
   aggressive |-> [annualReturn |-> 5, volatility |-> 8,
                   maxDrawdown |-> 15]]

FINANCIAL_ASSUMPTIONS ==
  [conservative |-> [annualReturn |-> 5, volatility |-> 8,
                     maxDrawdown |-> 15],
   moderate |-> [annualReturn |-> 8, volatility |-> 12, maxDrawdown |-> 25],
   aggressive |-> [annualReturn |-> 11, volatility |-> 18,
                   maxDrawdown |-> 40]]

\* assumptions.annualReturn / 12, in 1/RateDen
monthlyReturn(scenario) ==
  (FINANCIAL_ASSUMPTIONS[scenario].annualReturn * (RateDen \div 100)) \div 12

\* assumptions.volatility / Math.sqrt(12), in 1/RateDen
monthlyVolatility(scenario) ==
  (FINANCIAL_ASSUMPTIONS[scenario].volatility * (RateDen \div 100) * 1000)
    \div Sqrt12Milli

\* the random stream: g.pos calls made so far
Random(g) == g.seed[(g.pos % Len(g.seed)) + 1]
Advance(g) == [g EXCEPT !.pos = @ + 1]

\* monthlyReturn + (Math.random() - 0.5) * monthlyVolatility * 0.5
RandomReturn(scenario, u) ==
  monthlyReturn(scenario) + ((u - 2) * monthlyVolatility(scenario)) \div 8

\* value *= (1 + r), r in 1/den
ApplyReturn(value, r, den) ==
  value + (value \div den) * r + ((value % den) * r) \div den

\* what one pass of the month loop did to one of the three balances
MonthRecord(before, g, ret, after) ==
  [before |-> before, draw |-> g.pos, ret |-> ret, after |-> after]

MonthBodyContributionLast(loc, scenario, monthlyContribution) ==
  LET g1 == Advance(loc.rng)
      g2 == Advance(g1)
      g3 == Advance(g2)
      conservativeReturn == RandomReturn(scenario, Random(loc.rng))
      moderateReturn == RandomReturn(scenario, Random(g1))
      aggressiveReturn == RandomReturn(scenario, Random(g2))
      conservativeValue ==
        ApplyReturn(loc.conservativeValue, conservativeReturn, RateDen)
          + monthlyContribution
      moderateValue ==
        ApplyReturn(loc.moderateValue, moderateReturn, RateDen)
          + monthlyContribution
      aggressiveValue ==
        ApplyReturn(loc.aggressiveValue, aggressiveReturn, RateDen)
          + monthlyContribution
  IN [conservativeValue |-> conservativeValue,
      moderateValue |-> moderateValue,
      aggressiveValue |-> aggressiveValue,
      rng |-> g3,
      steps |-> loc.steps + 1,
      trace |->
        Append(loc.trace,
               [conservative |->
                  MonthRecord(loc.conservativeValue, loc.rng,
                              conservativeReturn, conservativeValue),
                moderate |->
                  MonthRecord(loc.moderateValue, g1, moderateReturn,
                              moderateValue),
                aggressive |->
                  MonthRecord(loc.aggressiveValue, g2, aggressiveReturn,
                              aggressiveValue)])]

\* one pass of the body of the month loop; trace records, per balance, its
\* value before the pass, the position of its Math.random() call in the
\* stream, the return drawn and the value after the pass
MonthBody(loc, scenario, monthlyContribution) ==
  LET g1 == Advance(loc.rng)
      g2 == Advance(g1)
      g3 == Advance(g2)
      conservativeReturn == RandomReturn(scenario, Random(loc.rng))
      moderateReturn == RandomReturn(scenario, Random(g1))
      aggressiveReturn == RandomReturn(scenario, Random(g2))
      conservativeValue ==
        ApplyReturn(loc.conservativeValue + monthlyContribution,
                    conservativeReturn, RateDen)
      moderateValue ==
        ApplyReturn(loc.moderateValue + monthlyContribution,
                    moderateReturn, RateDen)
      aggressiveValue ==
        ApplyReturn(loc.aggressiveValue + monthlyContribution,
                    aggressiveReturn, RateDen)
  IN [conservativeValue |-> conservativeValue,
      moderateValue |-> moderateValue,
      aggressiveValue |-> aggressiveValue,
      rng |-> g3,
      steps |-> loc.steps + 1,
      trace |->
        Append(loc.trace,
               [conservative |->
                  MonthRecord(loc.conservativeValue, loc.rng,
                              conservativeReturn, conservativeValue),
                moderate |->
                  MonthRecord(loc.moderateValue, g1, moderateReturn,
                              moderateValue),
                aggressive |->
                  MonthRecord(loc.aggressiveValue, g2, aggressiveReturn,
                              aggressiveValue)])]

\* for (let month = 0; month < 12; month++)
RECURSIVE MonthLoop(_, _, _, _)
MonthLoop(loc, month, scenario, monthlyContribution) ==
  IF month < 12
    THEN MonthLoop(MonthBody(loc, scenario, monthlyContribution),
                   month + 1, scenario, monthlyContribution)
    ELSE loc

\* Math.round of a fixed-point amount, as a fixed-point amount
RoundAmount(value) == MathRound(value, BalanceScale) * BalanceScale

\* for (let year = 0; year <= duration; year++)
RECURSIVE YearLoop(_, _, _, _, _, _)
YearLoop(loc, projections, year, duration, scenario, monthlyContribution) ==
  IF year <= duration
    THEN IF year = 0
      THEN YearLoop(loc,
                    Append(projections,
                           [year |-> year,
                            conservative |-> loc.conservativeValue,
                            moderate |-> loc.moderateValue,
                            aggressive |-> loc.aggressiveValue]),
                    year + 1, duration, scenario, monthlyContribution)
      ELSE LET after == MonthLoop(loc, 0, scenario, monthlyContribution)
           IN YearLoop(after,
                       Append(projections,
                              [year |-> year,
                               conservative |->
                                 RoundAmount(after.conservativeValue),
                               moderate |-> RoundAmount(after.moderateValue),
                               aggressive |->
                                 RoundAmount(after.aggressiveValue)]),
                       year + 1, duration, scenario, monthlyContribution)
    ELSE [projections |-> projections, rng |-> loc.rng, steps |-> loc.steps,
          trace |-> loc.trace]

\* the returned ProjectionData[], with the state of the random stream after
\* the call and the number of month-loop passes made
calculateProjection(initialAmount, duration, scenario, monthlyContribution, rng) ==
  YearLoop([conservativeValue |-> initialAmount,
            moderateValue |-> initialAmount,
            aggressiveValue |-> initialAmount,
            rng |-> rng, steps |-> 0, trace |-> <<>>],
           <<>>, 0, duration, scenario, monthlyContribution)

calculateScenarioResultsCagr(initialAmount, projections, scenario) ==
  LET finalValue == projections[Len(projections)][scenario] IN
  [finalValue |-> finalValue,
   totalReturn |-> finalValue - initialAmount,
   annualizedReturn |-> [ratio |-> Quot(finalValue, initialAmount),
                         root |-> Len(projections) - 1],
   maxDrawdown |-> FINANCIAL_ASSUMPTIONS[scenario].maxDrawdown,
   volatility |-> FINANCIAL_ASSUMPTIONS[scenario].volatility]

\* defined for a non-empty projections only: projections[-1][scenario]
\* throws a TypeError
calculateScenarioResults(initialAmount, projections, scenario) ==
  LET finalValue == projections[Len(projections)][scenario] IN
  [finalValue |-> finalValue,
   totalReturn |-> finalValue - initialAmount,
   annualizedReturn |-> [ratio |-> Quot(finalValue, initialAmount),
                         root |-> Len(projections)],
   maxDrawdown |-> FINANCIAL_ASSUMPTIONS[scenario].maxDrawdown,
   volatility |-> FINANCIAL_ASSUMPTIONS[scenario].volatility]

combinedProjectionsOneRun(conservativeProjections, moderateProjections, aggressiveProjections) ==
  [index \in 1..Len(conservativeProjections) |->
     [year |-> index - 1,
      conservative |-> conservativeProjections[index].conservative,
      moderate |-> conservativeProjections[index].moderate,
      aggressive |-> conservativeProjections[index].aggressive]]

combinedProjectionsOneBased(conservativeProjections, moderateProjections, aggressiveProjections) ==
  [index \in 1..Len(conservativeProjections) |->
     [year |-> index,
      conservative |-> conservativeProjections[index].conservative,
      moderate |-> moderateProjections[index].moderate,
      aggressive |-> aggressiveProjections[index].aggressive]]

\* conservativeProjections.map((_, index) => ...): index is zero-based
combinedProjections(conservativeProjections, moderateProjections, aggressiveProjections) ==
  [index \in 1..Len(conservativeProjections) |->
     [year |-> index - 1,
      conservative |-> conservativeProjections[index].conservative,
      moderate |-> moderateProjections[index].moderate,
      aggressive |-> aggressiveProjections[index].aggressive]]

\* the four calculateProjection calls of useMemo, in call order
simulationRuns(inputs, seed) ==
  LET primary ==
        calculateProjection(inputs.initialAmount, inputs.duration,
                            inputs.riskTolerance, inputs.monthlyContribution,
                            [seed |-> seed, pos |-> 0])
      conservative ==
        calculateProjection(inputs.initialAmount, inputs.duration,
                            "conservative", inputs.monthlyContribution,
                            primary.rng)
      moderate ==
        calculateProjection(inputs.initialAmount, inputs.duration,
                            "moderate", inputs.monthlyContribution,
                            conservative.rng)
      aggressive ==
        calculateProjection(inputs.initialAmount, inputs.duration,
                            "aggressive", inputs.monthlyContribution,
                            moderate.rng)
  IN [primary |-> primary, conservative |-> conservative,
      moderate |-> moderate, aggressive |-> aggressive]

NoScenarioResult ==
  [finalValue |-> 0, totalReturn |-> 0,
   annualizedReturn |-> [ratio |-> Quot(0, 1), root |-> 0],
   maxDrawdown |-> 0, volatility |-> 0]

NoSimulationResults ==
  [conservative |-> NoScenarioResult, moderate |-> NoScenarioResult,
   aggressive |-> NoScenarioResult, projections |-> <<>>]

simulationResults(inputs, runs) ==
  [conservative |->
     calculateScenarioResults(inputs.initialAmount,
                              runs.conservative.projections, "conservative"),
   moderate |->
     calculateScenarioResults(inputs.initialAmount,
                              runs.moderate.projections, "moderate"),
   aggressive |->
     calculateScenarioResults(inputs.initialAmount,
                              runs.aggressive.projections, "aggressive"),
   projections |->
     combinedProjections(runs.conservative.projections,
                         runs.moderate.projections,
                         runs.aggressive.projections)]

NoRun == [projections |-> <<>>, rng |-> [seed |-> <<0>>, pos |-> 0],
          steps |-> 0, trace |-> <<>>]

NoRuns == [primary |-> NoRun, conservative |-> NoRun, moderate |-> NoRun,
           aggressive |-> NoRun]

NoSimulationInputs ==
  [initialAmount |-> 0, duration |-> 0, riskTolerance |-> "",
   monthlyContribution |-> 0]

(***************************************************************************)
(* WealthManagementTools: handleInputChange and                            *)
(* calculateRetirementProjection with its delayed callback.                *)
(*                                                                         *)
(* Amounts are fixed-point numbers counted in 1/WealthScale currency       *)
(* units; investmentReturn is a whole percentage, so the monthly rate is   *)
(* investmentReturn / MonthlyPercentDen; the monthly interest is truncated *)
(* to the grid.  The 60/40 split of a point and the allocation values are  *)
(* exact quotients.                                                        *)
(***************************************************************************)
WealthScale == 10
\* investmentReturn / 100 / 12
MonthlyPercentDen == 1200

DefaultWealthData ==
  [age |-> 35, retirementAge |-> 65,
   currentAssets |-> 250000 * WealthScale,
   currentLiabilities |-> 50000 * WealthScale,
   monthlySavings |-> 2000 * WealthScale,
   investmentReturn |-> 7, riskTolerance |-> "moderate"]

\* the values typed into each field of the form
FieldValues ==
  [age |-> {35, 66},
   retirementAge |-> 65..(65 + MaxRetirementSpan),
   currentAssets |-> {0, 250000 * WealthScale},
   currentLiabilities |-> {50000 * WealthScale},
   monthlySavings |-> {2000 * WealthScale},
   investmentReturn |-> {7},
   riskTolerance |-> RiskTolerances]

WealthFields == DOMAIN FieldValues

\* one pass of the month loop
RetirementMonthBody(data, savings) ==
  ApplyReturn(savings + data.monthlySavings, data.investmentReturn,
              MonthlyPercentDen)

RECURSIVE RetirementMonthLoopInclusive(_, _, _)
RetirementMonthLoopInclusive(data, loc, month) ==
  IF month <= 12
    THEN RetirementMonthLoopInclusive(
           data,
           [savings |-> RetirementMonthBody(data, loc.savings),
            steps |-> loc.steps + 1],
           month + 1)
    ELSE loc

\* for (let month = 0; month < 12; month++)
RECURSIVE RetirementMonthLoop(_, _, _)
RetirementMonthLoop(data, loc, month) ==
  IF month < 12
    THEN RetirementMonthLoop(
           data,
           [savings |-> RetirementMonthBody(data, loc.savings),
            steps |-> loc.steps + 1],
           month + 1)
    ELSE loc

RetirementPointOfYear(data, year, savings) ==
  [age |-> year,
   savings |-> Quot(3 * savings, 5),
   investments |-> Quot(2 * savings, 5),
   total |-> savings]

\* the pushed RetirementProjection: savings * 0.6, savings * 0.4, savings
RetirementPoint(data, year, savings) ==
  [age |-> data.age + year,
   savings |-> Quot(3 * savings, 5),
   investments |-> Quot(2 * savings, 5),
   total |-> savings]

RECURSIVE RetirementYearLoopRecordFirst(_, _, _, _)
RetirementYearLoopRecordFirst(data, loc, points, year) ==
  IF year <= data.retirementAge - data.age
    THEN RetirementYearLoopRecordFirst(
           data, RetirementMonthLoop(data, loc, 0),
           Append(points, RetirementPoint(data, year, loc.savings)),
           year + 1)
    ELSE [projections |-> points, steps |-> loc.steps]

RECURSIVE RetirementYearLoopExclusive(_, _, _, _)
RetirementYearLoopExclusive(data, loc, points, year) ==
  IF year < data.retirementAge - data.age
    THEN LET after == RetirementMonthLoop(data, loc, 0) IN
           RetirementYearLoopExclusive(
             data, after,
             Append(points, RetirementPoint(data, year, after.savings)),
             year + 1)
    ELSE [projections |-> points, steps |-> loc.steps]

\* for (let year = 0; year <= yearsToRetirement; year++)
RECURSIVE RetirementYearLoop(_, _, _, _)
RetirementYearLoop(data, loc, points, year) ==
  IF year <= data.retirementAge - data.age
    THEN LET after == RetirementMonthLoop(data, loc, 0) IN
           RetirementYearLoop(
             data, after,
             Append(points, RetirementPoint(data, year, after.savings)),
             year + 1)
    ELSE [projections |-> points, steps |-> loc.steps]

\* the projections array built by the timer callback, with the number of
\* month-loop passes made
retirementProjections(data) ==
  RetirementYearLoop(
    data,
    [savings |-> data.currentAssets - data.currentLiabilities, steps |-> 0],
    <<>>, 0)

allocationOfAssets(data) ==
  LET aggressive == data.riskTolerance = "aggressive"
      moderate == data.riskTolerance = "moderate"
  IN <<[category |-> "Stocks",
        percentage |-> IF aggressive THEN 80 ELSE IF moderate THEN 60 ELSE 40,
        value |-> Quot(data.currentAssets
                         * (IF aggressive THEN 8 ELSE IF moderate THEN 6
                            ELSE 4), 10)],
       [category |-> "Bonds",
        percentage |-> IF aggressive THEN 10 ELSE IF moderate THEN 30 ELSE 50,
        value |-> Quot(data.currentAssets
                         * (IF aggressive THEN 1 ELSE IF moderate THEN 3
                            ELSE 5), 10)],
       [category |-> "Real Estate",
        percentage |-> 10,
        value |-> Quot(data.currentAssets, 10)]>>

\* the allocation array built by the timer callback
allocationOf(data) ==
  LET aggressive == data.riskTolerance = "aggressive"
      moderate == data.riskTolerance = "moderate"
      netWorth == data.currentAssets - data.currentLiabilities
  IN <<[category |-> "Stocks",
        percentage |-> IF aggressive THEN 80 ELSE IF moderate THEN 60 ELSE 40,
        value |-> Quot(netWorth
                         * (IF aggressive THEN 8 ELSE IF moderate THEN 6
                            ELSE 4), 10)],
       [category |-> "Bonds",
        percentage |-> IF aggressive THEN 10 ELSE IF moderate THEN 30 ELSE 50,
        value |-> Quot(netWorth
                         * (IF aggressive THEN 1 ELSE IF moderate THEN 3
                            ELSE 5), 10)],
       [category |-> "Real Estate",
        percentage |-> 10,
        value |-> Quot(netWorth, 10)]>>

\* disabled={loading} on the Calculate button
calculateDisabled(isLoading) == isLoading

timerProfileCurrent(captured, current) == current

\* the wealthData the timer callback reads: the one of its closure
timerProfile(captured, current) == captured

(***************************************************************************)
(* GoalBasedFinancialPlanning (the wizard) and generateFinancialPlan.      *)
(*                                                                         *)
(* Money is counted in hundreds, as in the plan requests above.  The       *)
(* remote backends are the environment: apiClient.post either rejects or   *)
(* resolves with a response chosen by the environment.  A value that       *)
(* generateFinancialPlan resolves with is tagged with its source and with  *)
(* whether it has the fields of a FinancialPlan.                           *)
(***************************************************************************)
totalSteps == 4

DefaultFormData ==
  [age |-> 30, income |-> 750, currentSavings |-> 100,
   targetGoal |-> "retirement", targetAmount |-> 10000, timeHorizon |-> 30,
   riskTolerance |-> "moderate"]

\* the values typed or clicked into each field of the wizard
FormFieldValues ==
  [age |-> {0, 30},
   income |-> {0, 750},
   currentSavings |-> {-100, 0, 100},
   targetAmount |-> {0, 10000},
   timeHorizon |-> {-1, 0, 1, 30},
   targetGoal |-> {"retirement", "home"},
   riskTolerance |-> RiskTolerances]

\* the step whose panel shows the field
FormFieldStep ==
  [age |-> 1, income |-> 1, currentSavings |-> 1, targetAmount |-> 2,
   timeHorizon |-> 2, targetGoal |-> 3, riskTolerance |-> 4]

isStepValidAlways(s, data) == s \in 1..4

isStepValid(s, data) ==
  CASE s = 1 -> data.age > 0 /\ data.income > 0 /\ data.currentSavings >= 0
    [] s = 2 -> data.targetAmount > 0 /\ data.timeHorizon > 0
    [] s = 3 -> TRUE
    [] s = 4 -> TRUE
    [] OTHER -> FALSE

\* disabled={!isStepValid() || loading}
nextDisabled(s, data, isLoading) == ~isStepValid(s, data) \/ isLoading

\* disabled={step === 1 || loading}
backDisabled(s, isLoading) == s = 1 \/ isLoading

\* the backends configured at build time
AiConfigs ==
  [supabase : BOOLEAN, openai : BOOLEAN]

\* what apiClient.post does: it rejects, or resolves with response.data
SupabaseResponses == {"rejects", "data_plan", "data_without_fields"}
OpenAiResponses ==
  {"rejects", "no_choices", "content_not_json", "content_plan",
   "content_without_fields"}
RemoteResponses == SupabaseResponses \cup OpenAiResponses

NoWizardPlan == [source |-> "null", isPlan |-> FALSE, plan |-> NoPlan]

MockValue(request) ==
  [source |-> "mock", isPlan |-> TRUE,
   plan |-> generateMockFinancialPlan(request)]

\* the try block of generateFinancialPlan: the value it returns, or "throws"
tryRemote(request, config, remote) ==
  IF config.supabase
    THEN CASE remote = "rejects" -> [outcome |-> "throws", path |-> "supabase"]
           [] remote = "data_plan" ->
                [outcome |-> "returns", path |-> "supabase",
                 value |-> [source |-> "supabase", isPlan |-> TRUE,
                            plan |-> NoPlan]]
           [] OTHER ->
                [outcome |-> "returns", path |-> "supabase",
                 value |-> [source |-> "supabase", isPlan |-> FALSE,
                            plan |-> NoPlan]]
    ELSE IF config.openai
      THEN CASE remote \in {"rejects", "no_choices", "content_not_json"} ->
                  [outcome |-> "throws", path |-> "openai"]
             [] remote = "content_plan" ->
                  [outcome |-> "returns", path |-> "openai",
                   value |-> [source |-> "openai", isPlan |-> TRUE,
                              plan |-> NoPlan]]
             [] OTHER ->
                  [outcome |-> "returns", path |-> "openai",
                   value |-> [source |-> "openai", isPlan |-> FALSE,
                              plan |-> NoPlan]]
      ELSE [outcome |-> "returns", path |-> "mock",
            value |-> MockValue(request)]

\* how the promise of generateFinancialPlan settles
generateFinancialPlan(request, config, remote) ==
  LET attempt == tryRemote(request, config, remote) IN
    IF attempt.outcome = "throws"
      THEN [settled |-> "resolved", path |-> attempt.path, threw |-> TRUE,
            value |-> MockValue(request)]
      ELSE [settled |-> "resolved", path |-> attempt.path, threw |-> FALSE,
            value |-> attempt.value]

NoAiCall ==
  [made |-> FALSE, request |-> NoPlanRequest, step |-> 0,
   loadingAtCall |-> FALSE, config |-> [supabase |-> FALSE, openai |-> FALSE],
   remote |-> "", settled |-> "", path |-> "", threw |-> FALSE,
   value |-> NoWizardPlan]

(***************************************************************************)
(* AssessmentForm and FinancialAssessment.handleAssessmentSubmit.          *)
(*                                                                         *)
(* The form keeps the same snapshot record as the endpoint reads.  A typed *)
(* value is either a number or a text that parseFloat does not read; the   *)
(* riskTolerance value "0" stands for the number 0.                        *)
(***************************************************************************)
assessmentSteps == 4

DefaultAssessmentData ==
  [monthlyIncome |-> 0, monthlyExpenses |-> 0, totalDebt |-> 0,
   savingsAmount |-> 0, emergencyFundMonths |-> 0, shortTermGoals |-> "",
   longTermGoals |-> "", riskTolerance |-> "medium"]

Typed(n) == [kind |-> "number", value |-> n]
NotANumber == [kind |-> "text", value |-> 0]

\* the values typed into each field of the assessment form
AssessmentFieldValues ==
  [monthlyIncome |-> {Typed(-20), Typed(20), NotANumber},
   monthlyExpenses |-> {Typed(-1), Typed(0)},
   totalDebt |-> {Typed(-24), Typed(0)},
   savingsAmount |-> {Typed(-1), Typed(0)},
   emergencyFundMonths |-> {Typed(-1), Typed(0)},
   shortTermGoals |-> {"", " ", "x"},
   longTermGoals |-> {"", " ", "x"},
   riskTolerance |-> {NotANumber}]

\* the step whose panel shows the field
AssessmentFieldStep ==
  [monthlyIncome |-> 1, monthlyExpenses |-> 2, totalDebt |-> 2,
   savingsAmount |-> 3, emergencyFundMonths |-> 3, shortTermGoals |-> 4,
   longTermGoals |-> 4, riskTolerance |-> 4]

\* parseFloat(value) || 0
parseFloatOrZero(typed) == IF typed.kind = "number" THEN typed.value ELSE 0

\* the value handleInputChange stores for a typed string
storedValue(field, typed) ==
  IF field \in {"shortTermGoals", "longTermGoals"} THEN typed
  ELSE IF field = "riskTolerance" THEN "0"
  ELSE parseFloatOrZero(typed)

\* text.trim().length > 0
NonBlank(text) == text \notin {"", " "}

isAssessmentStepValidLast(s, data) ==
  s = 4 => NonBlank(data.shortTermGoals) /\ NonBlank(data.longTermGoals)

isAssessmentStepValid(s, data) ==
  CASE s = 1 -> data.monthlyIncome > 0
    [] s = 2 -> data.monthlyExpenses >= 0 /\ data.totalDebt >= 0
    [] s = 3 -> data.savingsAmount >= 0 /\ data.emergencyFundMonths >= 0
    [] s = 4 -> NonBlank(data.shortTermGoals) /\ NonBlank(data.longTermGoals)
    [] OTHER -> FALSE

NoSubmission ==
  [made |-> FALSE, step |-> 0, data |-> DefaultAssessmentData,
   answered |-> FALSE]

(***************************************************************************)
(* State machine: one call per behaviour                                   *)
(***************************************************************************)
Init ==
  /\ pc = "init"
  /\ body = Malformed
  /\ localScores = NoScores
  /\ result = NoResult
  /\ response = NoResponse
  /\ planRequest = NoPlanRequest
  /\ plan = NoPlan
  /\ simInputs = NoSimulationInputs
  /\ simSeed = <<0>>
  /\ simRuns = NoRuns
  /\ simResults = NoSimulationResults
  /\ wealthData = DefaultWealthData
  /\ loading = FALSE
  /\ pendingData = DefaultWealthData
  /\ wealthProjections = <<>>
  /\ assetAllocation = <<>>
  /\ wealthSteps = 0
  /\ timers = 0
  /\ step = 1
  /\ planLoading = FALSE
  /\ formData = DefaultFormData
  /\ wizardPlan = NoWizardPlan
  /\ aiCall = NoAiCall
  /\ inFlight = 0
  /\ assessStep = 1
  /\ assessForm = DefaultAssessmentData
  /\ assessLoading = FALSE
  /\ submission = NoSubmission

\* a direct call of calculateFinancialScore(d)
CalculateFinancialScore ==
  /\ pc = "init"
  /\ \E d \in AssessmentRequest :
       /\ body' = d
       /\ localScores' = scores(d)
       /\ result' = calculateFinancialScore(d)
  /\ pc' = "scored"
  /\ UNCHANGED <<response, planVars, simVars, wealthVars, wizardVars,
                 assessVars>>

\* a POST to the financial-assessment function
ServeAssessment ==
  /\ pc = "init"
  /\ \E d \in AssessmentRequest \cup {Malformed} :
       /\ body' = d
       /\ response' = serveAssessment(d)
  /\ pc' = "served"
  /\ UNCHANGED <<localScores, result, planVars, simVars, wealthVars, wizardVars,
                 assessVars>>

\* a call of generateMockFinancialPlan(r)
GenerateMockFinancialPlan ==
  /\ pc = "init"
  /\ \E r \in FinancialPlanRequest :
       /\ planRequest' = r
       /\ plan' = generateMockFinancialPlan(r)
  /\ pc' = "planned"
  /\ UNCHANGED <<scoreVars, simVars, wealthVars, wizardVars,
                 assessVars>>

\* the results useMemo of the simulator, recomputed for the inputs of the
\* form after "Run Simulation"; with an empty projections array
\* calculateScenarioResults throws and no results are produced
RunSimulation ==
  /\ pc = "init"
  /\ \E inputs \in SimulationInputs, seed \in Seeds :
       /\ simInputs' = inputs
       /\ simSeed' = seed
       /\ simRuns' = simulationRuns(inputs, seed)
       /\ IF Len(simRuns'.conservative.projections) = 0
            THEN /\ simResults' = simResults
                 /\ pc' = "sim_threw"
            ELSE /\ simResults' = simulationResults(inputs, simRuns')
                 /\ pc' = "simulated"
  /\ UNCHANGED <<scoreVars, planVars, wealthVars, wizardVars,
                 assessVars>>

\* handleInputChange(field, value) on the wealth form, before the
\* projection is requested or during its delay
HandleInputChange ==
  /\ pc \in {"init", "wealth_form", "wealth_loading"}
  /\ \E field \in WealthFields :
       \E value \in FieldValues[field] :
         wealthData' = [wealthData EXCEPT ![field] = value]
  /\ pc' = IF pc = "init" THEN "wealth_form" ELSE pc
  /\ UNCHANGED <<scoreVars, planVars, simVars, wizardVars, assessVars, loading,
                 pendingData, wealthProjections, assetAllocation, wealthSteps,
                 timers>>

\* calculateRetirementProjection, reached through the Calculate button:
\* setLoading(true) and setTimeout; the timer callback closes over the
\* wealthData of this render
CalculateRetirementProjection ==
  /\ pc \in {"init", "wealth_form", "wealth_loading"}
  /\ ~calculateDisabled(loading)
  /\ timers < MaxTimers
  /\ loading' = TRUE
  /\ pendingData' = wealthData
  /\ timers' = timers + 1
  /\ pc' = "wealth_loading"
  /\ UNCHANGED <<scoreVars, planVars, simVars, wizardVars, assessVars, wealthData,
                 wealthProjections, assetAllocation, wealthSteps>>

\* the setTimeout callback of calculateRetirementProjection
RetirementTimer ==
  /\ pc = "wealth_loading"
  /\ timers > 0
  /\ LET data == timerProfile(pendingData, wealthData)
         run == retirementProjections(data)
     IN /\ wealthProjections' = run.projections
        /\ wealthSteps' = run.steps
        /\ assetAllocation' = allocationOf(data)
  /\ loading' = FALSE
  /\ timers' = timers - 1
  /\ pc' = IF timers = 1 THEN "wealth_done" ELSE pc
  /\ UNCHANGED <<scoreVars, planVars, simVars, wizardVars, assessVars, wealthData,
                 pendingData>>

\* the wizard's handleInputChange(field, value): the form is shown while
\* plan is null and each field only in the panel of its step
WizardInputChange ==
  /\ pc \in {"init", "wizard"}
  /\ ~wizardPlan.isPlan
  /\ \E field \in DOMAIN FormFieldValues :
       /\ FormFieldStep[field] = step
       /\ \E value \in FormFieldValues[field] :
            formData' = [formData EXCEPT ![field] = value]
  /\ pc' = "wizard"
  /\ UNCHANGED <<scoreVars, planVars, simVars, wealthVars, assessVars, step,
                 planLoading, wizardPlan, aiCall, inFlight>>

\* handleNext, reached through the Next / Generate Plan button; on the last
\* step it runs handleGeneratePlan up to its await
HandleNext ==
  /\ pc \in {"init", "wizard"}
  /\ ~wizardPlan.isPlan
  /\ ~nextDisabled(step, formData, planLoading)
  /\ inFlight < MaxInFlight
  /\ IF step < totalSteps
       THEN /\ step' = step + 1
            /\ UNCHANGED <<planLoading, aiCall, inFlight>>
       ELSE /\ planLoading' = TRUE
            /\ \E config \in AiConfigs :
                 aiCall' = [NoAiCall EXCEPT
                              !.made = TRUE,
                              !.request = formData,
                              !.step = step,
                              !.loadingAtCall = planLoading,
                              !.config = config]
            /\ inFlight' = inFlight + 1
            /\ UNCHANGED step
  /\ pc' = "wizard"
  /\ UNCHANGED <<scoreVars, planVars, simVars, wealthVars, assessVars,
                 formData,
                 wizardPlan>>

\* handleBack, reached through the Back button
HandleBack ==
  /\ pc = "wizard"
  /\ ~wizardPlan.isPlan
  /\ ~backDisabled(step, planLoading)
  /\ IF step > 1 THEN step' = step - 1 ELSE UNCHANGED step
  /\ UNCHANGED <<pc, scoreVars, planVars, simVars, wealthVars, assessVars,
                 planLoading,
                 formData, wizardPlan, aiCall, inFlight>>

\* the pending generateFinancialPlan call settles and handleGeneratePlan
\* resumes: setPlan on success, and setLoading(false) in the finally block
SettleGeneratePlan ==
  /\ pc = "wizard"
  /\ inFlight > 0
  /\ \E remote \in RemoteResponses :
       /\ IF aiCall.config.supabase THEN remote \in SupabaseResponses
            ELSE IF aiCall.config.openai THEN remote \in OpenAiResponses
            ELSE remote = "rejects"
       /\ LET settlement ==
                generateFinancialPlan(aiCall.request, aiCall.config, remote)
          IN /\ aiCall' = [aiCall EXCEPT !.remote = remote,
                                          !.settled = settlement.settled,
                                          !.path = settlement.path,
                                          !.threw = settlement.threw,
                                          !.value = settlement.value]
             /\ wizardPlan' = IF settlement.settled = "resolved"
                                THEN settlement.value ELSE wizardPlan
  /\ planLoading' = FALSE
  /\ inFlight' = inFlight - 1
  /\ UNCHANGED <<pc, scoreVars, planVars, simVars, wealthVars, assessVars,
                 step,
                 formData>>

\* the 'Create New Plan' button of the plan view
CreateNewPlan ==
  /\ pc = "wizard"
  /\ wizardPlan.isPlan
  /\ wizardPlan' = NoWizardPlan
  /\ step' = 1
  /\ UNCHANGED <<pc, scoreVars, planVars, simVars, wealthVars, assessVars,
                 planLoading,
                 formData, aiCall, inFlight>>

\* the assessment form's handleInputChange(field, e.target.value); each
\* field is shown only in the panel of its step
AssessmentInputChange ==
  /\ pc \in {"init", "assess"}
  /\ \E field \in DOMAIN AssessmentFieldValues :
       /\ AssessmentFieldStep[field] = assessStep
       /\ \E typed \in AssessmentFieldValues[field] :
            assessForm' = [assessForm EXCEPT
                             ![field] = storedValue(field, typed)]
  /\ pc' = "assess"
  /\ UNCHANGED <<scoreVars, planVars, simVars, wealthVars, wizardVars,
                 assessStep, assessLoading, submission>>

\* the form's handleNext, reached through the Next / Complete Assessment
\* button (disabled={!isStepValid() || loading}); on the last step it calls
\* onSubmit(formData), and handleAssessmentSubmit posts the snapshot
AssessmentNext ==
  /\ pc \in {"init", "assess"}
  /\ isAssessmentStepValid(assessStep, assessForm)
  /\ ~assessLoading
  /\ IF assessStep < assessmentSteps
       THEN /\ assessStep' = assessStep + 1
            /\ UNCHANGED <<assessLoading, submission>>
       ELSE /\ submission' = [made |-> TRUE, step |-> assessStep,
                              data |-> assessForm, answered |-> FALSE]
            /\ assessLoading' = TRUE
            /\ UNCHANGED assessStep
  /\ pc' = "assess"
  /\ UNCHANGED <<scoreVars, planVars, simVars, wealthVars, wizardVars,
                 assessForm>>

\* the form's handleBack (disabled={step === 1 || loading})
AssessmentBack ==
  /\ pc = "assess"
  /\ assessStep # 1
  /\ ~assessLoading
  /\ assessStep' = assessStep - 1
  /\ UNCHANGED <<pc, scoreVars, planVars, simVars, wealthVars, wizardVars,
                 assessForm, assessLoading, submission>>

\* the posted snapshot is answered by the financial-assessment function
\* and the results view replaces the form
AssessmentAnswered ==
  /\ pc = "assess"
  /\ assessLoading
  /\ body' = submission.data
  /\ response' = serveAssessment(submission.data)
  /\ submission' = [submission EXCEPT !.answered = TRUE]
  /\ assessLoading' = FALSE
  /\ pc' = "assess_results"
  /\ UNCHANGED <<localScores, result, planVars, simVars, wealthVars,
                 wizardVars, assessStep, assessForm>>

\* the fetch fails: the alert is shown and the form stays as it is
AssessmentFailed ==
  /\ pc = "assess"
  /\ assessLoading
  /\ assessLoading' = FALSE
  /\ UNCHANGED <<pc, scoreVars, planVars, simVars, wealthVars, wizardVars,
                 assessStep, assessForm, submission>>

NextScore == CalculateFinancialScore \/ ServeAssessment
NextAssess ==
  \/ AssessmentInputChange
  \/ AssessmentNext
  \/ AssessmentBack
  \/ AssessmentAnswered
  \/ AssessmentFailed
  \/ ServeAssessment
NextWizard ==
  \/ WizardInputChange
  \/ HandleNext
  \/ HandleBack
  \/ SettleGeneratePlan
  \/ CreateNewPlan
NextPlan == GenerateMockFinancialPlan
NextSim == RunSimulation
NextWealth ==
  HandleInputChange \/ CalculateRetirementProjection \/ RetirementTimer
Next ==
  NextScore \/ NextPlan \/ NextSim \/ NextWealth \/ NextWizard \/ NextAssess

ScoreSpec == Init /\ [][NextScore]_vars
PlanSpec == Init /\ [][NextPlan]_vars
SimSpec == Init /\ [][NextSim]_vars
WealthSpec == Init /\ [][NextWealth]_vars
WizardSpec == Init /\ [][NextWizard]_vars
AssessSpec == Init /\ [][NextAssess]_vars
\* a step that runs a pending setTimeout callback
TimerFires == pc = "wealth_loading" /\ timers > 0 /\ timers' = timers - 1
\* a scheduled timer callback runs after its delay
WealthLiveSpec == WealthSpec /\ WF_timers(TimerFires)
\* the three calculators that loop over months
LoopSpec == Init /\ [][NextPlan \/ NextSim \/ NextWealth]_vars
Spec == Init /\ [][Next]_vars

TypeOK ==
  /\ pc \in {"init", "scored", "served", "planned", "simulated",
            "sim_threw", "wealth_form", "wealth_loading", "wealth_done",
            "wizard", "assess", "assess_results"}
  /\ assessStep \in 1..assessmentSteps
  /\ step \in 1..totalSteps
  /\ inFlight \in 0..MaxInFlight
  /\ loading \in BOOLEAN
  /\ timers \in 0..MaxTimers
  /\ response.status \in {0, 200, 400, 500}

(***************************************************************************)
(* Properties                                                              *)
(***************************************************************************)

\* C1: for every valid snapshot (monthlyIncome > 0, the other numbers >= 0)
\* the score is an integer in 0..100 and the category is 'excellent' iff
\* score >= 80, 'good' iff 60 <= score < 80, 'fair' iff 40 <= score < 60 and
\* 'poor' iff score < 40; the same holds of the result the handler returns.
C1_ScoreRangeAndCategory ==
  LET Ok(r) ==
        /\ r.score \in 0..100
        /\ r.category \in {"excellent", "good", "fair", "poor"}
        /\ (r.category = "excellent") <=> (r.score >= 80)
        /\ (r.category = "good") <=> (r.score >= 60 /\ r.score < 80)
        /\ (r.category = "fair") <=> (r.score >= 40 /\ r.score < 60)
        /\ (r.category = "poor") <=> (r.score < 40)
  IN /\ (pc = "scored" /\ body.monthlyIncome > 0) => Ok(result)
     /\ (pc = "served" /\ response.status = 200 /\ body.monthlyIncome > 0)
          => Ok(response.result)

\* a valid snapshot scored exactly at a category threshold
C1_Witness ==
  /\ pc = "scored"
  /\ body.monthlyIncome > 0
  /\ result.score = 80
  /\ result.category = "excellent"

\* C2: the score is the sum of the five sub-scores, and the worked example
\* (5000, 3000, 10000, 5000, 4 months, both goals set) has sub-scores
\* 25, 25, 16, 12, 15, score 93 and category 'excellent'.
C2_SumAndExample ==
  pc = "scored" =>
    /\ result.score = localScores.savingsRate + localScores.debtManagement
                      + localScores.emergencyFund
                      + localScores.expenseManagement
                      + localScores.goalPlanning
    /\ body = ExampleSnapshot =>
         /\ localScores = [savingsRate |-> 25, debtManagement |-> 25,
                           emergencyFund |-> 16, expenseManagement |-> 12,
                           goalPlanning |-> 15]
         /\ result.score = 93
         /\ result.category = "excellent"

C2_Witness == pc = "scored" /\ body = ExampleSnapshot /\ result.score = 93

\* C3 (as claimed): a health-score request with monthlyIncome <= 0 (zero or
\* negative) ends in an invalid-input error and never returns a score and
\* a category.
C3_NonPositiveIncomeFails ==
  (pc = "served" /\ body # Malformed /\ body.monthlyIncome <= 0)
    => (response.status = 400 /\ response.result = NoResult)

\* C4: savings-rate sub-score by tier of rate = (income - expenses)/income,
\* breakpoints included: >= 25% -> 25, [20%,25%) -> 22, [15%,20%) -> 20,
\* [10%,15%) -> 15, [5%,10%) -> 10, (0,5%) -> 5, <= 0 -> 0.
C4_SavingsRateTiers ==
  LET inc == body.monthlyIncome
      num == body.monthlyIncome - body.monthlyExpenses
      \* rate >= p%   and   rate > 0, for inc # 0
      AtLeast(p) == IF inc > 0 THEN num * 100 >= p * inc
                    ELSE num * 100 <= p * inc
      Positive == IF inc > 0 THEN num > 0 ELSE num < 0
      s == localScores.savingsRate
  IN (pc = "scored" /\ inc # 0) =>
       /\ AtLeast(25) => s = 25
       /\ (AtLeast(20) /\ ~AtLeast(25)) => s = 22
       /\ (AtLeast(15) /\ ~AtLeast(20)) => s = 20
       /\ (AtLeast(10) /\ ~AtLeast(15)) => s = 15
       /\ (AtLeast(5) /\ ~AtLeast(10)) => s = 10
       /\ (Positive /\ ~AtLeast(5)) => s = 5
       /\ ~Positive => s = 0

\* a savings rate of exactly 20%
C4_Witness ==
  /\ pc = "scored"
  /\ body.monthlyIncome = 20
  /\ body.monthlyExpenses = 16
  /\ localScores.savingsRate = 22

\* C5: debt-management sub-score by tier of ratio = totalDebt/(income*12):
\* <= 0.3 -> 25, (0.3,0.5] -> 20, (0.5,0.7] -> 15, (0.7,1.0] -> 10,
\* otherwise 5; never 0.
C5_DebtTiers ==
  LET ann == body.monthlyIncome * 12
      debt == body.totalDebt
      \* ratio <= p/10, for ann # 0
      AtMost(p) == IF ann > 0 THEN debt * 10 <= p * ann
                   ELSE debt * 10 >= p * ann
      s == localScores.debtManagement
  IN pc = "scored" =>
       /\ s # 0
       /\ ann # 0 =>
            /\ AtMost(3) => s = 25
            /\ (AtMost(5) /\ ~AtMost(3)) => s = 20
            /\ (AtMost(7) /\ ~AtMost(5)) => s = 15
            /\ (AtMost(10) /\ ~AtMost(7)) => s = 10
            /\ ~AtMost(10) => s = 5

\* a debt above the annual income
C5_Witness ==
  /\ pc = "scored"
  /\ body.monthlyIncome > 0
  /\ body.totalDebt > body.monthlyIncome * 12
  /\ localScores.debtManagement = 5

\* C6: emergency-fund sub-score by months: >= 6 -> 20, [4,6) -> 16,
\* [3,4) -> 12, [1,3) -> 8, (0,1) -> 4, <= 0 -> 0.
C6_EmergencyFundTiers ==
  LET m == body.emergencyFundMonths
      s == localScores.emergencyFund
  IN pc = "scored" =>
       /\ m >= 6 * MonthsScale => s = 20
       /\ (m >= 4 * MonthsScale /\ m < 6 * MonthsScale) => s = 16
       /\ (m >= 3 * MonthsScale /\ m < 4 * MonthsScale) => s = 12
       /\ (m >= 1 * MonthsScale /\ m < 3 * MonthsScale) => s = 8
       /\ (m > 0 /\ m < 1 * MonthsScale) => s = 4
       /\ m <= 0 => s = 0

\* half a month of emergency fund
C6_Witness ==
  /\ pc = "scored"
  /\ body.emergencyFundMonths > 0
  /\ body.emergencyFundMonths < MonthsScale
  /\ localScores.emergencyFund = 4

\* C7: goal-planning sub-score: 15 when both goal texts are non-empty, 8 when
\* exactly one is, 0 when both are empty; no other value.
C7_GoalPlanning ==
  LET st == body.shortTermGoals # ""
      lt == body.longTermGoals # ""
      s == localScores.goalPlanning
  IN pc = "scored" =>
       /\ s \in {0, 8, 15}
       /\ (s = 15) <=> (st /\ lt)
       /\ (s = 8) <=> ((st /\ ~lt) \/ (~st /\ lt))
       /\ (s = 0) <=> (~st /\ ~lt)

\* exactly one goal text set
C7_Witness ==
  /\ pc = "scored"
  /\ body.shortTermGoals # ""
  /\ body.longTermGoals = ""
  /\ localScores.goalPlanning = 8

\* C8: risk and strength lists follow the documented thresholds (savings
\* risk below 5%, strength from 10%; debt risk above 100% or above 70%,
\* strength up to 30%; emergency-fund risk below 3 months, strength from 6;
\* deficit risk when expenses > income, otherwise expense risk above 85%);
\* each of the four dimensions yields at most one message, never both a risk
\* and a strength.
C8_RiskAndStrengthThresholds ==
  LET inc == body.monthlyIncome
      exp == body.monthlyExpenses
      num == inc - exp
      debt == body.totalDebt
      m == body.emergencyFundMonths
      Has(q, t) == \E i \in 1..Len(q) : q[i] = t
      Count(T) == Cardinality({i \in 1..Len(result.riskAreas) :
                                 result.riskAreas[i] \in T})
                  + Cardinality({i \in 1..Len(result.strengths) :
                                   result.strengths[i] \in T})
      RateBelow(p) == IF inc > 0 THEN num * 100 < p * inc
                      ELSE num * 100 > p * inc
      DebtAbove(p) == IF inc > 0 THEN debt * 10 > p * inc * 12
                      ELSE debt * 10 < p * inc * 12
      ExpAbove85 == IF inc > 0 THEN exp * 100 > 85 * inc
                    ELSE exp * 100 < 85 * inc
      SavingsRisk == Has(result.riskAreas, "risk_savings_very_low")
                     \/ Has(result.riskAreas, "risk_savings_low")
      DebtRisk == Has(result.riskAreas, "risk_debt_high")
                  \/ Has(result.riskAreas, "risk_debt_elevated")
  IN pc = "scored" =>
       /\ inc # 0 =>
            /\ RateBelow(5) => SavingsRisk
            /\ ~RateBelow(10) => Has(result.strengths,
                                     "strength_savings_healthy")
            /\ DebtAbove(10) => Has(result.riskAreas, "risk_debt_high")
            /\ DebtAbove(7) => DebtRisk
            /\ ~DebtAbove(3) => Has(result.strengths,
                                    "strength_debt_excellent")
            /\ (exp <= inc /\ ExpAbove85)
                 => Has(result.riskAreas, "risk_expenses_over85")
       /\ m < 3 * MonthsScale
            => Has(result.riskAreas, "risk_emergency_insufficient")
       /\ m >= 6 * MonthsScale
            => Has(result.strengths, "strength_emergency_strong")
       /\ exp > inc => Has(result.riskAreas, "risk_expenses_deficit")
       /\ Count({"risk_savings_very_low", "risk_savings_low",
                 "strength_savings_healthy"}) <= 1
       /\ Count({"risk_debt_high", "risk_debt_elevated",
                 "strength_debt_excellent"}) <= 1
       /\ Count({"risk_emergency_insufficient",
                 "strength_emergency_strong"}) <= 1
       /\ Count({"risk_expenses_deficit", "risk_expenses_over85"}) <= 1

\* a valid snapshot running a deficit
C8_Witness ==
  /\ pc = "scored"
  /\ body.monthlyIncome > 0
  /\ body.monthlyExpenses > body.monthlyIncome
  /\ \E i \in 1..Len(result.riskAreas) :
       result.riskAreas[i] = "risk_expenses_deficit"

\* C9: the recommendations are a subsequence of savings, debt, emergency
\* fund, expense reduction, goal-setting, diversification (each at most
\* once, in that order), and diversification is present iff
\* savingsAmount > 0.
C9_RecommendationOrder ==
  LET recs == result.recommendations
      Rank(t) == CASE t = "rec_savings" -> 1
                   [] t = "rec_debt" -> 2
                   [] t = "rec_emergency" -> 3
                   [] t = "rec_expenses" -> 4
                   [] t \in {"rec_goals_timeline", "rec_goals_define"} -> 5
                   [] t = "rec_diversify" -> 6
                   [] OTHER -> 0
  IN pc = "scored" =>
       /\ \A i \in 1..Len(recs) : Rank(recs[i]) \in 1..6
       /\ \A i, j \in 1..Len(recs) : i < j => Rank(recs[i]) < Rank(recs[j])
       /\ (\E i \in 1..Len(recs) : recs[i] = "rec_diversify")
            <=> (body.savingsAmount > 0)

\* all six recommendations at once
C9_Witness ==
  /\ pc = "scored"
  /\ body.monthlyIncome > 0
  /\ body.savingsAmount > 0
  /\ Len(result.recommendations) = 6

\* C10: for timeHorizon > 0 the plan has exactly timeHorizon*12 points with
\* month = 1, 2, ..., timeHorizon*12 in order, computed from
\* monthlySavings = (targetAmount - currentSavings)/(timeHorizon*12), which
\* is negative (not clamped) when currentSavings > targetAmount.
C10_PlanLengthAndMonths ==
  LET n == planRequest.timeHorizon * 12
      ms == plan.summary.monthlySavings
      pts == plan.monthlyPlans
  IN (pc = "planned" /\ planRequest.timeHorizon > 0) =>
       /\ Len(pts) = n
       /\ \A i \in 1..Len(pts) : pts[i].month = i
       /\ ms.d = n
       /\ ms.n = planRequest.targetAmount - planRequest.currentSavings
       \* savings = monthlySavings * 0.6 * month, over PlanDen = 500 * ms.d
       /\ PlanDen(planRequest) = 500 * ms.d
       /\ \A i \in 1..Len(pts) :
            pts[i].savings = 300 * pts[i].month * ms.n
       /\ planRequest.currentSavings > planRequest.targetAmount =>
            /\ ms.n < 0
            /\ \A i \in 1..Len(pts) : pts[i].savings < 0

\* a plan for someone already over target
C10_Witness ==
  /\ pc = "planned"
  /\ planRequest.timeHorizon > 0
  /\ planRequest.currentSavings > planRequest.targetAmount
  /\ Len(plan.monthlyPlans) = planRequest.timeHorizon * 12
  /\ plan.summary.monthlySavings.n < 0

\* C11 (as claimed): in every monthly point total = currentSavings + savings
\* + investments of that point, with savings = monthlySavings*0.6*month and
\* investments = monthlySavings*0.4*month*(1+bonus), bonus 0.01 for
\* aggressive and 0.005 otherwise; for 120000 over 10 years, moderate, from
\* 0, the point of month 120 has total 120240 (1202.4 hundreds).
C11_TotalIsSumOfParts ==
  LET gap == planRequest.targetAmount - planRequest.currentSavings
      den == PlanDen(planRequest)
      pts == plan.monthlyPlans
  IN pc = "planned" =>
       /\ \A i \in 1..Len(pts) :
            /\ pts[i].savings = gap * 300 * pts[i].month
            /\ pts[i].investments
                 = gap * pts[i].month
                   * (IF planRequest.riskTolerance = "aggressive"
                        THEN 202 ELSE 201)
            /\ pts[i].total = planRequest.currentSavings * den
                              + pts[i].savings + pts[i].investments
       /\ planRequest = ExamplePlanRequest =>
            /\ Len(pts) = 120
            /\ pts[120].total * 10 = 12024 * den

\* C12 (as claimed): three milestones, for month 12, month 24 and the final
\* month timeHorizon*12; for every timeHorizon >= 1 each names a month that
\* exists in monthlyPlans and states the total of that month's point (as
\* printed: toFixed(0) for the first two, the target for the last).
C12_MilestonesMatchPlan ==
  LET pts == plan.monthlyPlans
      ms == plan.milestones
      den == PlanDen(planRequest)
  IN (pc = "planned" /\ planRequest.timeHorizon >= 1) =>
       /\ Len(ms) = 3
       /\ ms[1].month = 12
       /\ ms[2].month = 24
       /\ ms[3].month = planRequest.timeHorizon * 12
       /\ \A k \in 1..Len(ms) :
            /\ ms[k].month \in 1..Len(pts)
            /\ ms[k].month \in 1..Len(pts) =>
                 /\ pts[ms[k].month].month = ms[k].month
                 /\ ms[k].amount = ToFixed0(pts[ms[k].month].total, den)

\* C13: for timeHorizon > 0 the totals are non-decreasing from month 1 to the
\* last month when targetAmount >= currentSavings, and strictly decreasing
\* when targetAmount < currentSavings.
C13_TotalMonotone ==
  LET pts == plan.monthlyPlans
  IN (pc = "planned" /\ planRequest.timeHorizon > 0) =>
       /\ planRequest.targetAmount >= planRequest.currentSavings =>
            \A i \in 1..(Len(pts) - 1) : pts[i].total <= pts[i + 1].total
       /\ planRequest.targetAmount < planRequest.currentSavings =>
            \A i \in 1..(Len(pts) - 1) : pts[i].total > pts[i + 1].total

\* a plan that draws savings down, month after month
C13_Witness ==
  /\ pc = "planned"
  /\ planRequest.timeHorizon > 0
  /\ planRequest.targetAmount < planRequest.currentSavings
  /\ Len(plan.monthlyPlans) >= 12
  /\ plan.monthlyPlans[1].total > plan.monthlyPlans[12].total


\* C14: for every integer duration >= 0 the combined projection series has
\* duration + 1 points whose years are 0..duration in order, and the year-0
\* point equals initialAmount for all three tiers, whatever the random
\* draws and the monthly contribution.
C14_ProjectionSeries ==
  (pc \in {"simulated", "sim_threw"} /\ simInputs.duration >= 0) =>
    /\ pc = "simulated"
    /\ Len(simResults.projections) = simInputs.duration + 1
    /\ \A i \in 1..Len(simResults.projections) :
         simResults.projections[i].year = i - 1
    /\ \A tier \in Scenarios :
         simResults.projections[1][tier] = simInputs.initialAmount

C14_Witness ==
  /\ pc = "simulated"
  /\ simInputs.duration = 2
  /\ simInputs.monthlyContribution > 0
  /\ simInputs.initialAmount > 0
  /\ \E i \in 1..Len(simSeed) : simSeed[i] # 2
  /\ Len(simResults.projections) = 3
  /\ simResults.projections[3].year = 2
  /\ simResults.projections[2].conservative # simInputs.initialAmount

\* every Math.random() call returns its mean 0.5
MeanDraws == \A i \in 1..Len(simSeed) : simSeed[i] = 2

\* C15 as stated: for equal initialAmount > 0, contribution >= 0 and
\* duration >= 1 the finalValue under mean draws is strictly ordered
\* conservative < moderate < aggressive.
C15_StrictExpectedOrdering ==
  (pc = "simulated" /\ MeanDraws /\ simInputs.initialAmount > 0
     /\ simInputs.duration >= 1) =>
    /\ simResults.conservative.finalValue < simResults.moderate.finalValue
    /\ simResults.moderate.finalValue < simResults.aggressive.finalValue

\* C15 amended: under mean draws the finalValue is ordered
\* conservative <= moderate <= aggressive, and strictly so when
\* initialAmount is at least 100; the rounding of the yearly points to whole
\* units makes small balances coincide.
C15_ExpectedOrdering ==
  (pc = "simulated" /\ MeanDraws /\ simInputs.initialAmount > 0
     /\ simInputs.duration >= 1) =>
    /\ simResults.conservative.finalValue <= simResults.moderate.finalValue
    /\ simResults.moderate.finalValue <= simResults.aggressive.finalValue
    /\ simInputs.initialAmount >= 100 * BalanceScale =>
         /\ simResults.conservative.finalValue
              < simResults.moderate.finalValue
         /\ simResults.moderate.finalValue
              < simResults.aggressive.finalValue

C15_Witness ==
  /\ pc = "simulated"
  /\ MeanDraws
  /\ simInputs.initialAmount = 1 * BalanceScale
  /\ simInputs.monthlyContribution = 0
  /\ simInputs.duration = 1
  /\ simResults.conservative.finalValue = simResults.aggressive.finalValue

\* C16: each tier's finalValue is its value in the last projection point,
\* totalReturn is finalValue - initialAmount, and annualizedReturn is
\* ((finalValue / initialAmount) ^ (1 / n) - 1) * 100 with n = duration + 1,
\* the number of yearly points including year 0.
C16_ScenarioResults ==
  pc = "simulated" =>
    \A tier \in Scenarios :
      LET r == simResults[tier]
          last == simResults.projections[Len(simResults.projections)]
      IN /\ r.finalValue = last[tier]
         /\ last.year = simInputs.duration
         /\ r.totalReturn = r.finalValue - simInputs.initialAmount
         /\ r.annualizedReturn.root = simInputs.duration + 1
         /\ r.annualizedReturn.ratio
              = Quot(r.finalValue, simInputs.initialAmount)

C16_Witness ==
  /\ pc = "simulated"
  /\ simInputs.duration = 2
  /\ simInputs.initialAmount = 1000 * BalanceScale
  /\ simInputs.monthlyContribution > 0
  /\ simResults.moderate.annualizedReturn.root = 3
  /\ simResults.moderate.totalReturn > 24 * simInputs.monthlyContribution

\* C17: when retirementAge > age the retirement projection has exactly
\* (retirementAge - age) + 1 points, with ages age..retirementAge, one per
\* year, strictly ascending.
C17_RetirementPoints ==
  (pc = "wealth_done" /\ pendingData.retirementAge > pendingData.age) =>
    /\ Len(wealthProjections)
         = (pendingData.retirementAge - pendingData.age) + 1
    /\ \A i \in 1..Len(wealthProjections) :
         wealthProjections[i].age = pendingData.age + (i - 1)
    /\ wealthProjections[Len(wealthProjections)].age
         = pendingData.retirementAge
    /\ \A i \in 1..(Len(wealthProjections) - 1) :
         wealthProjections[i].age < wealthProjections[i + 1].age

C17_Witness ==
  /\ pc = "wealth_done"
  /\ pendingData.age = 66
  /\ pendingData.retirementAge = 68
  /\ Len(wealthProjections) = 3
  /\ wealthProjections[1].age = 66
  /\ wealthProjections[3].age = 68

\* C18: the allocation has the entries Stocks, Bonds, Real Estate with
\* percentages 80/10/10 (aggressive), 60/30/10 (moderate), 40/50/10
\* (conservative); the percentages sum to 100, each value is
\* percentage / 100 of currentAssets - currentLiabilities, and the values
\* sum to that net worth, also when it is negative.
C18_AssetAllocation ==
  pc = "wealth_done" =>
    LET netWorth ==
          pendingData.currentAssets - pendingData.currentLiabilities
        expected ==
          CASE pendingData.riskTolerance = "aggressive" -> <<80, 10, 10>>
            [] pendingData.riskTolerance = "moderate" -> <<60, 30, 10>>
            [] OTHER -> <<40, 50, 10>>
    IN /\ Len(assetAllocation) = 3
       /\ assetAllocation[1].category = "Stocks"
       /\ assetAllocation[2].category = "Bonds"
       /\ assetAllocation[3].category = "Real Estate"
       /\ \A i \in 1..3 :
            /\ assetAllocation[i].percentage = expected[i]
            /\ assetAllocation[i].value.d > 0
            /\ assetAllocation[i].value.n * 100
                 = assetAllocation[i].percentage * netWorth
                     * assetAllocation[i].value.d
       /\ assetAllocation[1].percentage + assetAllocation[2].percentage
            + assetAllocation[3].percentage = 100
       /\ assetAllocation[1].value.d = assetAllocation[2].value.d
       /\ assetAllocation[2].value.d = assetAllocation[3].value.d
       /\ assetAllocation[1].value.n + assetAllocation[2].value.n
            + assetAllocation[3].value.n
            = netWorth * assetAllocation[1].value.d

C18_Witness ==
  /\ pc = "wealth_done"
  /\ pendingData.riskTolerance = "aggressive"
  /\ pendingData.currentAssets < pendingData.currentLiabilities
  /\ Len(assetAllocation) = 3
  /\ assetAllocation[1].value.n < 0

\* C19: with retirementAge <= age the calculation still completes: the
\* projection has one point when the two ages are equal and none when
\* retirementAge < age, and the allocation still has its three entries.
C19_NoYearsToRetirement ==
  (pc = "wealth_done" /\ pendingData.retirementAge <= pendingData.age) =>
    /\ ~loading
    /\ pendingData.retirementAge = pendingData.age =>
         /\ Len(wealthProjections) = 1
         /\ wealthProjections[1].age = pendingData.age
    /\ pendingData.retirementAge < pendingData.age =>
         Len(wealthProjections) = 0
    /\ Len(assetAllocation) = 3

C19_Witness ==
  /\ pc = "wealth_done"
  /\ pendingData.age = 66
  /\ pendingData.retirementAge = 65
  /\ wealthProjections = <<>>
  /\ Len(assetAllocation) = 3

\* C20 as stated: every loop terminates; each simulation run makes exactly
\* duration * 12 monthly steps, the goal plan exactly timeHorizon * 12
\* steps and the retirement projection exactly
\* max(0, retirementAge - age + 1) * 12 steps, for every integer input,
\* zero and negative durations included.
C20_LoopSteps ==
  /\ pc \in {"simulated", "sim_threw"} =>
       \A run \in DOMAIN simRuns :
         simRuns[run].steps = simInputs.duration * 12
  /\ pc = "planned" =>
       Len(plan.monthlyPlans) = planRequest.timeHorizon * 12
  /\ pc = "wealth_done" =>
       wealthSteps
         = (IF pendingData.retirementAge - pendingData.age + 1 > 0
              THEN pendingData.retirementAge - pendingData.age + 1
              ELSE 0) * 12

\* C20 amended: every loop terminates; each simulation run makes exactly
\* max(0, duration) * 12 monthly steps, the goal plan exactly
\* max(0, timeHorizon) * 12 steps and the retirement projection exactly
\* max(0, retirementAge - age + 1) * 12 steps.
C20_LoopStepsClamped ==
  /\ pc \in {"simulated", "sim_threw"} =>
       \A run \in DOMAIN simRuns :
         simRuns[run].steps
           = (IF simInputs.duration > 0 THEN simInputs.duration ELSE 0) * 12
  /\ pc = "planned" =>
       Len(plan.monthlyPlans)
         = (IF planRequest.timeHorizon > 0 THEN planRequest.timeHorizon
            ELSE 0) * 12
  /\ pc = "wealth_done" =>
       wealthSteps
         = (IF pendingData.retirementAge - pendingData.age + 1 > 0
              THEN pendingData.retirementAge - pendingData.age + 1
              ELSE 0) * 12

C20_Witness ==
  /\ pc = "sim_threw"
  /\ simInputs.duration < 0
  /\ \A run \in DOMAIN simRuns :
       /\ simRuns[run].steps = 0
       /\ simRuns[run].projections = <<>>

\* C21: generateFinancialPlan always resolves with a plan and never
\* rejects: it takes the Supabase function if configured, else OpenAI if a
\* key is configured, else the mock plan, and whenever the chosen remote
\* path throws (network error, malformed JSON, missing fields) it returns
\* the deterministic mock plan of the same request.
C21_AlwaysResolvesWithPlan ==
  aiCall.settled # "" =>
    /\ aiCall.settled = "resolved"
    /\ aiCall.path = (IF aiCall.config.supabase THEN "supabase"
                      ELSE IF aiCall.config.openai THEN "openai"
                      ELSE "mock")
    /\ aiCall.threw => aiCall.value = MockValue(aiCall.request)
    /\ aiCall.remote \in {"rejects", "no_choices", "content_not_json",
                          "data_without_fields", "content_without_fields"}
         => aiCall.value = MockValue(aiCall.request)
    /\ aiCall.value.isPlan

\* C25: across any sequence of Next, Back, field edits and 'Create New Plan'
\* resets, generateFinancialPlan is only called from step 4 with
\* timeHorizon > 0, targetAmount > 0, age > 0, income > 0 and
\* currentSavings >= 0, and never while a generation is still loading.
C25_CallOnlyFromValidStep4 ==
  /\ aiCall.made =>
       /\ aiCall.step = 4
       /\ aiCall.request.timeHorizon > 0
       /\ aiCall.request.targetAmount > 0
       /\ aiCall.request.age > 0
       /\ aiCall.request.income > 0
       /\ aiCall.request.currentSavings >= 0
       /\ ~aiCall.loadingAtCall
  /\ inFlight <= 1
  /\ inFlight = 1 <=> planLoading

C25_Witness ==
  /\ aiCall.made
  /\ inFlight = 1
  /\ planLoading
  /\ step = 4
  /\ aiCall.request.timeHorizon = 1
  /\ aiCall.request.currentSavings = 0
  /\ formData.riskTolerance # aiCall.request.riskTolerance

\* the order of the three Math.random() calls within one month
DrawOrder == [conservative |-> 0, moderate |-> 1, aggressive |-> 2]

\* the scenario whose assumptions a run of calculateProjection used
ScenarioOfRun(run) ==
  IF run = "primary" THEN simInputs.riskTolerance ELSE run

\* C22: in every simulated month the contribution is added before the
\* return is applied: the new balance is (balance + monthlyContribution) *
\* (1 + r) with r = annualReturn/12 + (U - 0.5) * (volatility/sqrt(12)) *
\* 0.5 for one fresh draw U; r lies within annualReturn/12 +/- 0.25 *
\* volatility/sqrt(12) (up to one unit of the rate grid), the months chain
\* from initialAmount, and every draw is a call of its own in the stream of
\* Math.random() values.
C22_MonthlyStep ==
  pc \in {"simulated", "sim_threw"} =>
    \A run \in DOMAIN simRuns :
      LET trace == simRuns[run].trace
          scenario == ScenarioOfRun(run)
          spread == monthlyVolatility(scenario) \div 4
      IN /\ Len(trace) = simRuns[run].steps
         /\ \A k \in 1..Len(trace) : \A tier \in Scenarios :
              LET m == trace[k][tier]
                  U == simSeed[(m.draw % Len(simSeed)) + 1]
              IN /\ m.ret = monthlyReturn(scenario)
                      + ((U - 2) * monthlyVolatility(scenario)) \div 8
                 /\ m.ret >= monthlyReturn(scenario) - spread - 1
                 /\ m.ret <= monthlyReturn(scenario) + spread
                 /\ m.after
                      = ApplyReturn(m.before + simInputs.monthlyContribution,
                                    m.ret, RateDen)
                 /\ m.before = IF k = 1 THEN simInputs.initialAmount
                               ELSE trace[k - 1][tier].after
                 /\ m.draw = trace[1].conservative.draw + 3 * (k - 1)
                               + DrawOrder[tier]

C22_Witness ==
  /\ pc = "simulated"
  /\ simInputs.monthlyContribution > 0
  /\ simInputs.initialAmount = 0
  /\ simInputs.duration = 2
  /\ Len(simRuns.aggressive.trace) = 24
  /\ simRuns.aggressive.trace[1].aggressive.after
       > simInputs.monthlyContribution
  /\ simSeed[1] # simSeed[2]

\* the positions in the stream of the draws that moved a tier's balance in
\* the run made for that tier
DrawsOfTier(tier) ==
  {simRuns[tier].trace[k][tier].draw : k \in 1..Len(simRuns[tier].trace)}

\* C23: the combined series and the three ScenarioResults come from three
\* separate runs, one per tier: tier t's yearly values and finalValue are
\* those of the run made with tier t's assumptions, and no draw that moves
\* tier t's balance moves another tier's.
C23_TiersIndependent ==
  pc = "simulated" =>
    /\ \A tier \in Scenarios :
         LET run == simRuns[tier] IN
           /\ Len(simResults.projections) = Len(run.projections)
           /\ \A i \in 1..Len(run.projections) :
                simResults.projections[i][tier] = run.projections[i][tier]
           /\ simResults[tier].finalValue
                = run.projections[Len(run.projections)][tier]
           /\ \A y \in 1..simInputs.duration :
                run.projections[y + 1][tier]
                  = RoundAmount(run.trace[12 * y][tier].after)
           /\ \A k \in 1..Len(run.trace) :
                run.trace[k][tier].ret
                  = RandomReturn(tier,
                                 simSeed[(run.trace[k][tier].draw
                                            % Len(simSeed)) + 1])
    /\ \A t1 \in Scenarios : \A t2 \in Scenarios \ {t1} :
         DrawsOfTier(t1) \cap DrawsOfTier(t2) = {}

C23_Witness ==
  /\ pc = "simulated"
  /\ simInputs.duration = 2
  /\ simInputs.initialAmount = 1000 * BalanceScale
  /\ ~MeanDraws
  /\ Cardinality(DrawsOfTier("moderate")) = 24
  /\ simResults.moderate.finalValue # simRuns.conservative.projections[3].moderate
  /\ simResults.conservative.finalValue < simResults.moderate.finalValue

\* the balance after a number of further monthly steps
\* balance := (balance + monthlySavings) * (1 + investmentReturn / 100 / 12)
RECURSIVE BalanceAfter(_, _, _)
BalanceAfter(data, balance, months) ==
  IF months = 0
    THEN balance
    ELSE BalanceAfter(
           data,
           (balance + data.monthlySavings)
             + ((balance + data.monthlySavings) \div MonthlyPercentDen)
                 * data.investmentReturn
             + (((balance + data.monthlySavings) % MonthlyPercentDen)
                  * data.investmentReturn) \div MonthlyPercentDen,
           months - 1)

\* C24: the retirement balance starts at currentAssets - currentLiabilities
\* and every year index 0..yearsToRetirement applies 12 monthly steps
\* before its point is recorded: the first point holds 12 months of
\* contributions and growth, the point of retirementAge
\* (yearsToRetirement + 1) * 12 months, and each point has total = balance,
\* savings = 0.6 * balance and investments = 0.4 * balance.
C24_RetirementBalance ==
  pc = "wealth_done" =>
    /\ \A i \in 1..Len(wealthProjections) :
         LET point == wealthProjections[i] IN
           /\ point.total
                = BalanceAfter(
                    pendingData,
                    IF i = 1
                      THEN pendingData.currentAssets
                             - pendingData.currentLiabilities
                      ELSE wealthProjections[i - 1].total,
                    12)
           /\ point.savings.d > 0
           /\ point.savings.n * 10 = 6 * point.total * point.savings.d
           /\ point.investments.d > 0
           /\ point.investments.n * 10 = 4 * point.total * point.investments.d
    /\ wealthSteps = 12 * Len(wealthProjections)

C24_Witness ==
  /\ pc = "wealth_done"
  /\ pendingData.retirementAge - pendingData.age = 2
  /\ pendingData.monthlySavings > 0
  /\ pendingData.investmentReturn = 7
  /\ pendingData.currentAssets > pendingData.currentLiabilities
  /\ Len(wealthProjections) = 3
  /\ wealthProjections[1].total
       > pendingData.currentAssets - pendingData.currentLiabilities
           + 12 * pendingData.monthlySavings
  /\ wealthProjections[3].age = pendingData.retirementAge
  /\ wealthProjections[3].total
       = BalanceAfter(pendingData,
                      pendingData.currentAssets
                        - pendingData.currentLiabilities, 36)

\* C30: clicking Calculate sets loading and schedules one delayed
\* computation; while loading no second computation can be started; every
\* started computation eventually stores projections and allocation and
\* clears loading; and the stored result is computed from the profile as it
\* was at the click, whatever edits are made during the delay.
C30_DelayedComputation ==
  /\ [](/\ timers <= 1
        /\ loading <=> timers = 1
        /\ loading <=> pc = "wealth_loading"
        /\ pc = "wealth_done" =>
             /\ wealthProjections
                  = retirementProjections(pendingData).projections
             /\ assetAllocation = allocationOf(pendingData))
  /\ [][(~loading /\ loading') =>
          (timers' = timers + 1 /\ pendingData' = wealthData)]_vars
  /\ [][loading => pendingData' = pendingData]_vars
  /\ (loading ~> (~loading /\ pc = "wealth_done"))

C30_Witness ==
  /\ pc = "wealth_done"
  /\ ~loading
  /\ wealthData.age # pendingData.age
  /\ wealthData.riskTolerance # pendingData.riskTolerance
  /\ pendingData.age = 66
  /\ pendingData.retirementAge = 67
  /\ Len(wealthProjections) = 2
  /\ assetAllocation = allocationOf(pendingData)
  /\ assetAllocation # allocationOf(wealthData)

\* C26: across any sequence of Next, Back and edits the assessment form
\* submits a snapshot only when monthlyIncome > 0, monthlyExpenses >= 0,
\* totalDebt >= 0, savingsAmount >= 0, emergencyFundMonths >= 0 and both
\* goal texts are non-blank; and the endpoint computes a score only for a
\* request with non-zero monthlyIncome and both goal texts non-empty, and
\* answers 400 'Missing required fields' otherwise.
C26_ValidatedSubmission ==
  /\ submission.made =>
       /\ submission.step = assessmentSteps
       /\ submission.data.monthlyIncome > 0
       /\ submission.data.monthlyExpenses >= 0
       /\ submission.data.totalDebt >= 0
       /\ submission.data.savingsAmount >= 0
       /\ submission.data.emergencyFundMonths >= 0
       /\ NonBlank(submission.data.shortTermGoals)
       /\ NonBlank(submission.data.longTermGoals)
  /\ (pc \in {"served", "assess_results"} /\ body # Malformed) =>
       IF body.monthlyIncome # 0 /\ body.shortTermGoals # ""
            /\ body.longTermGoals # ""
         THEN /\ response.status = 200
              /\ response.result = calculateFinancialScore(body)
         ELSE /\ response.status = 400
              /\ response.error = "Missing required fields"
              /\ response.result = NoResult
  /\ pc = "assess_results" => response.status = 200

C26_Witness ==
  /\ pc = "assess_results"
  /\ submission.made
  /\ submission.answered
  /\ body = submission.data
  /\ body.monthlyIncome = 20
  /\ body.riskTolerance = "0"
  /\ response.status = 200
  /\ response.result.score > 0

(***************************************************************************)
(* Monotonicity of the score                                               *)
(***************************************************************************)
\* the categories from worst to best
categoryRank(c) ==
  CASE c = "excellent" -> 3
    [] c = "good" -> 2
    [] c = "fair" -> 1
    [] OTHER -> 0

\* C27: with monthlyIncome > 0 and the other inputs fixed, a larger
\* monthlyExpenses or a larger totalDebt never gives a larger score, a larger
\* emergencyFundMonths never gives a smaller score, and the category of the
\* snapshot whose score is not larger is never the better one.
C27_ScoreMonotone ==
  (pc = "scored" /\ body.monthlyIncome > 0) =>
    /\ \A e \in (body.monthlyExpenses + 1)..MaxExpenses :
         LET s == totalScore([body EXCEPT !.monthlyExpenses = e]) IN
         /\ s <= result.score
         /\ categoryRank(categoryOf(s)) <= categoryRank(result.category)
    /\ \A t \in {x \in Debts : x > body.totalDebt} :
         LET s == totalScore([body EXCEPT !.totalDebt = t]) IN
         /\ s <= result.score
         /\ categoryRank(categoryOf(s)) <= categoryRank(result.category)
    /\ \A m \in (body.emergencyFundMonths + 1)..MaxMonthsHalves :
         LET s == totalScore([body EXCEPT !.emergencyFundMonths = m]) IN
         /\ s >= result.score
         /\ categoryRank(categoryOf(s)) >= categoryRank(result.category)

\* a snapshot that larger expenses, a larger debt and a longer emergency fund
\* each move into another category
C27_Witness ==
  /\ pc = "scored"
  /\ body.monthlyIncome > 0
  /\ \E e \in (body.monthlyExpenses + 1)..MaxExpenses :
       LET s == totalScore([body EXCEPT !.monthlyExpenses = e]) IN
       s < result.score /\ categoryOf(s) # result.category
  /\ \E t \in {x \in Debts : x > body.totalDebt} :
       LET s == totalScore([body EXCEPT !.totalDebt = t]) IN
       s < result.score /\ categoryOf(s) # result.category
  /\ \E m \in (body.emergencyFundMonths + 1)..MaxMonthsHalves :
       LET s == totalScore([body EXCEPT !.emergencyFundMonths = m]) IN
       s > result.score /\ categoryOf(s) # result.category

\* C28 (as claimed): for timeHorizon > 0 and every risk tolerance, the total
\* of the last monthly point (month timeHorizon*12) equals targetAmount
\* exactly, as the final milestone says.
C28_LastTotalIsTarget ==
  LET n == planRequest.timeHorizon * 12
  IN (pc = "planned" /\ planRequest.timeHorizon > 0) =>
       /\ Len(plan.monthlyPlans) = n
       /\ plan.monthlyPlans[n].month = n
       /\ plan.milestones[3].month = n
       /\ plan.milestones[3].amount.value = planRequest.targetAmount
       \* in exact arithmetic
       /\ plan.monthlyPlans[n].total
            = planRequest.targetAmount * PlanDen(planRequest)
       \* as the number the code stores
       /\ totalAsStored(planRequest, n) = DoubleOfInt(planRequest.targetAmount)

\* (Math.pow(ratio, 1 / root) - 1) * 100 is a finite number: the quotient is
\* neither 0/0 (NaN) nor x/0 (Infinity), and the base of the root is not
\* negative
FiniteAnnualized(a) ==
  /\ a.ratio.d # 0
  /\ a.ratio.n = 0 \/ ((a.ratio.n > 0) <=> (a.ratio.d > 0))

\* C29 (as claimed): for every input the simulator form can produce
\* (initialAmount >= 0, 0 included; an integer duration >= 1;
\* monthlyContribution >= 0) and every draw sequence, each tier's
\* finalValue, totalReturn and annualizedReturn are finite numbers, and no
\* balance is ever negative.
C29_FiniteResults ==
  ( /\ pc = "simulated"
    /\ simInputs.initialAmount >= 0
    /\ simInputs.duration >= 1
    /\ simInputs.monthlyContribution >= 0 ) =>
    /\ \A tier \in Scenarios :
         /\ simResults[tier].finalValue >= 0
         /\ simResults[tier].totalReturn
              = simResults[tier].finalValue - simInputs.initialAmount
         /\ FiniteAnnualized(simResults[tier].annualizedReturn)
    /\ \A run \in DOMAIN simRuns :
         \A k \in 1..Len(simRuns[run].trace) : \A tier \in Scenarios :
           /\ simRuns[run].trace[k][tier].before >= 0
           /\ simRuns[run].trace[k][tier].after >= 0
    /\ \A i \in 1..Len(simResults.projections) : \A tier \in Scenarios :
         simResults.projections[i][tier] >= 0

====
